---- MODULE Spec2Model ----
(***************************************************************************)
(* MiniGoogle-DSA: inverted-index search engine.                           *)
(*                                                                         *)
(* The model follows the build pipeline (inverted index -> JSON barrels    *)
(* -> binary barrels), the serving cache, the posting lookup with its      *)
(* delta ("new_docs") merge, and the two search executables.               *)
(*                                                                         *)
(* Text is a sequence of tokens [t, v]: t = "ch" is one byte with code v,  *)
(* t = "num" is a decimal number as printed by operator<< and read back by *)
(* stoi.  Scores are fixed point: 1/1000 for logarithms, tf-idf and        *)
(* weights, 1/100 for similarities, 1/10000 for the combined total.        *)
(***************************************************************************)
EXTENDS Integers, Sequences, FiniteSets, TLC

VARIABLES
    pc,               \* stage of the pipeline: which executable runs next
    invIndexFile,     \* inverted_index.txt: one token line per lemma
    jsonBarrels,      \* inverted_barrel_<i>.json as written by saveBarrels
    lookupFile,       \* barrel_lookup.json
    binFile,          \* barrel_<i>.bin, i = 10 is barrel_new_docs.bin
    idxFile,          \* barrel_<i>.idx, i = 10 is barrel_new_docs.idx
    convI,            \* loop counter of convertAllBarrels
    initialized,      \* g_cache.initialized
    barrelLookup,     \* g_cache.barrelLookup
    barrelIndices,    \* g_cache.barrelIndices
    wordToWordId,     \* g_cache.wordToWordId
    wordIdToLemmaId,  \* g_cache.wordIdToLemmaId
    added,            \* history: the documents add-document has accepted
    out,              \* output of the last lookup or search
    embeddings,       \* g_cache.embeddings as read from embeddings.bin, by word
    autoFiles,        \* autocomplete.json, trie.txt and ngram_autocomplete.json
    autocompleteIndex,   \* g_cache.autocompleteIndex
    autocompleteLoaded,  \* g_cache.autocompleteLoaded
    toolExit,         \* the build tool that ran last, its fault and exit code
    lexiconFiles,     \* lexicon.bin and lexicon.json, whichever exist
    dataset,          \* the parsed documents the forward index builder reads
    forwardIndexFile, \* forward_index.txt: one record per document
    app,              \* the state of the React component App and its requests
    wordToEmbIdx      \* g_cache.wordToEmbIdx: vocab.json, and the order it is iterated in

vars == <<pc, invIndexFile, jsonBarrels, lookupFile, binFile, idxFile, convI,
          initialized, barrelLookup, barrelIndices, wordToWordId,
          wordIdToLemmaId, added, out, embeddings, autoFiles, autocompleteIndex,
          autocompleteLoaded, toolExit, lexiconFiles, dataset, forwardIndexFile,
          app, wordToEmbIdx>>

\* the state the index build and the posting lookup leave alone
sideVars == <<embeddings, autoFiles, autocompleteIndex, autocompleteLoaded, toolExit,
              lexiconFiles, dataset, forwardIndexFile, app, wordToEmbIdx>>

(***************************************************************************)
(* Program constants                                                       *)
(***************************************************************************)
DOC_ID_SIZE == 20
numBarrels == 10
hotThreshold == 10000
warmThreshold == 1000
NEW_DOCS == 10
TOTAL_DOCS == 59000
TOP_K == 20
TOP_SIMILAR_WORDS == 3
EMBEDDING_DIM == 50
TFIDF_WEIGHT == 5
SEMANTIC_WEIGHT == 3
PAGERANK_WEIGHT == 2
DEFAULT_DOC_SCORE == 500

(***************************************************************************)
(* Bounds of the model                                                     *)
(***************************************************************************)
MaxDocs == 2      \* documents of a small corpus
MaxTf == 2        \* largest term frequency in a small corpus
MaxAdds == 2      \* add-document calls in one run

(***************************************************************************)
(* Generic helpers                                                         *)
(***************************************************************************)
Put(f, k, v) == [x \in (DOMAIN f) \cup {k} |-> IF x = k THEN v ELSE f[x]]

EmptyMap == [x \in {} |-> 0]

Min(a, b) == IF a < b THEN a ELSE b

\* Body applied to the value of v, v computed once
With(v, Body(_)) == CHOOSE y \in {Body(x) : x \in {v}} : TRUE

RECURSIVE SeqToSet(_)
SeqToSet(s) == IF s = <<>> THEN {} ELSE {Head(s)} \cup SeqToSet(Tail(s))

(***************************************************************************)
(* Text: tokens, number formatting and parsing                             *)
(***************************************************************************)
Ch(c) == [t |-> "ch", v |-> c]
Num(n) == [t |-> "num", v |-> n]
BAR == 124
COLON == 58
COMMA == 44

\* a string of bytes as text
Chars(bytes) == [k \in 1..Len(bytes) |-> Ch(bytes[k])]

\* the bytes of a text
Bytes(text) == [k \in 1..Len(text) |-> text[k].v]

\* std::string::find: first position >= i of the byte c, 0 for npos
Find(text, c, i) ==
    LET at == {k \in i..Len(text) : text[k] = Ch(c)}
    IN IF at = {} THEN 0 ELSE CHOOSE k \in at : \A j \in at : k <= j

\* the fields successive getline(stream, field, c) calls return: the text
\* between delimiters, with no empty last field after a final delimiter
SplitOn(text, c) ==
    LET at == {k \in 1..Len(text) : text[k] = Ch(c)}
        n == IF text = <<>> THEN 0
             ELSE IF text[Len(text)] = Ch(c) THEN Cardinality(at)
             ELSE Cardinality(at) + 1
        Delim(j) == IF j = 0 THEN 0
                    ELSE IF j > Cardinality(at) THEN Len(text) + 1
                    ELSE CHOOSE p \in at : Cardinality({q \in at : q < p}) = j - 1
    IN [j \in 1..n |-> SubSeq(text, Delim(j - 1) + 1, Delim(j) - 1)]

\* stoi throws std::invalid_argument unless the text starts with a number
StoiThrows(text) == text = <<>> \/ text[1].t # "num"
Stoi(text) == IF StoiThrows(text) THEN 0 ELSE text[1].v

RECURSIVE Digits(_)
\* std::to_string for n >= 0, as digit values
Digits(n) == IF n < 10 THEN <<n>> ELSE Digits(n \div 10) \o <<n % 10>>

RECURSIVE LexLess(_, _)
\* std::string operator<
LexLess(a, b) ==
    IF b = <<>> THEN FALSE
    ELSE IF a = <<>> THEN TRUE
    ELSE IF Head(a) # Head(b) THEN Head(a) < Head(b)
    ELSE LexLess(Tail(a), Tail(b))

(***************************************************************************)
(* Inverted index file  (invertedIndex.cpp, saveToFile)                    *)
(***************************************************************************)
Posting(d, tf) == [doc_id |-> d, tf |-> tf]

RECURSIVE FormatPostings(_)
\* doc1:tf1,doc2:tf2,...
FormatPostings(ps) ==
    IF ps = <<>> THEN <<>>
    ELSE Chars(Head(ps).doc_id) \o <<Ch(COLON), Num(Head(ps).tf)>>
         \o (IF Len(ps) > 1 THEN <<Ch(COMMA)>> ELSE <<>>)
         \o FormatPostings(Tail(ps))

\* lemma_id|document_frequency|postings
FormatLine(lemma, ps) ==
    <<Num(lemma), Ch(BAR), Num(Len(ps)), Ch(BAR)>> \o FormatPostings(ps)

(***************************************************************************)
(* Barrel partitioner  (JSONBarrelCreator)                                 *)
(***************************************************************************)
\* the three fields getline(ss, _, '|') reads from a line
LineFields(line) ==
    LET f == SplitOn(line, BAR)
    IN [lemmaIdStr |-> IF Len(f) >= 1 THEN f[1] ELSE <<>>,
        dfStr |-> IF Len(f) >= 2 THEN f[2] ELSE <<>>,
        postingsStr |-> IF Len(f) >= 3 THEN f[3] ELSE <<>>]

\* faulty variant of BarrelNum: the thresholds belong to the upper class
BarrelNumGe(lemmaId, df) ==
    IF df >= hotThreshold THEN 0
    ELSE IF df >= warmThreshold THEN 1 + (lemmaId % 6)
    ELSE 7 + (lemmaId % 3)

\* the barrel a term goes to
BarrelNum(lemmaId, df) ==
    IF df > hotThreshold THEN 0
    ELSE IF df > warmThreshold THEN 1 + (lemmaId % 6)
    ELSE 7 + (lemmaId % 3)

HasColon(posting) == Find(posting, COLON, 1) # 0

\* the JSON array built from the fields of postingsStr split on ',': the
\* fields without ':' are skipped
PostingList(fields) ==
    LET kept == SelectSeq(fields, HasColon)
    IN [k \in 1..Len(kept) |->
          LET posting == kept[k]
              colonPos == Find(posting, COLON, 1)
          IN Posting(Bytes(SubSeq(posting, 1, colonPos - 1)),
                     Stoi(SubSeq(posting, colonPos + 1, Len(posting))))]

ParsePostings(postingsStr) == PostingList(SplitOn(postingsStr, COMMA))

\* some stoi of the two passes throws on this line
LineThrows(line) ==
    LET f == LineFields(line)
        ps == SplitOn(f.postingsStr, COMMA)
    IN \/ StoiThrows(f.lemmaIdStr)
       \/ StoiThrows(f.dfStr)
       \/ \E i \in 1..Len(ps) :
            LET colonPos == Find(ps[i], COLON, 1)
            IN colonPos # 0 /\ StoiThrows(SubSeq(ps[i], colonPos + 1, Len(ps[i])))

EmptyBarrel == [num_terms |-> 0, postings |-> EmptyMap]

RECURSIVE AddTerms(_, _)
\* the second pass of createFromInvertedIndex over the lines read
AddTerms(bs, lines) ==
    IF lines = <<>> THEN bs
    ELSE LET f == LineFields(Head(lines))
             lemmaId == Stoi(f.lemmaIdStr)
             df == Stoi(f.dfStr)
             barrelNum == BarrelNum(lemmaId, df)
             termData == [df |-> df, docs |-> ParsePostings(f.postingsStr)]
         IN AddTerms([bs EXCEPT ![barrelNum] =
                          [num_terms |-> @.num_terms + 1,
                           postings |-> Put(@.postings, lemmaId, termData)]],
                     Tail(lines))

createFromInvertedIndex(lines) ==
    AddTerms([b \in 0..(numBarrels - 1) |-> EmptyBarrel], lines)

(***************************************************************************)
(* Binary barrel codec  (BinaryBarrelConverter, findPostingsBinary)        *)
(*                                                                         *)
(* A .bin file is a sequence of fields: a 4-byte integer or a 20-byte      *)
(* document-ID buffer.  Offsets and lengths are in bytes.                  *)
(***************************************************************************)
IntField(n) == [sz |-> 4, i |-> n, b |-> <<>>]
BufField(buf) == [sz |-> DOC_ID_SIZE, i |-> 0, b |-> buf]

\* faulty variant of EncodeDocId: one byte less is copied
EncodeDocIdShort(docId) ==
    [k \in 1..DOC_ID_SIZE |->
        IF k <= Len(docId) /\ k <= DOC_ID_SIZE - 2 THEN docId[k] ELSE 0]

\* memset(bp.doc_id, 0, 20); strncpy(bp.doc_id, docId.c_str(), 19)
EncodeDocId(docId) ==
    [k \in 1..DOC_ID_SIZE |->
        IF k <= Len(docId) /\ k <= DOC_ID_SIZE - 1 THEN docId[k] ELSE 0]

\* faulty variant of Tellp: every field counted as 4 bytes
TellpWords(bin) == 4 * Len(bin)

\* the size in bytes of what has been written: 4 for each integer, 20 for
\* each document-ID buffer
Tellp(bin) ==
    4 * Cardinality({k \in 1..Len(bin) : bin[k].sz = 4})
    + DOC_ID_SIZE * Cardinality({k \in 1..Len(bin) : bin[k].sz = DOC_ID_SIZE})

RECURSIVE PostingFields(_)
PostingFields(docs) ==
    IF docs = <<>> THEN <<>>
    ELSE <<BufField(EncodeDocId(Head(docs).doc_id)), IntField(Head(docs).tf)>>
         \o PostingFields(Tail(docs))

\* [lemmaId][df][numDocs][postings...]
BlockFields(lemmaId, df, docs) ==
    <<IntField(lemmaId), IntField(df), IntField(Len(docs))>> \o PostingFields(docs)

IdxEntry(lemmaId, offset, length) ==
    [lemmaId |-> lemmaId, offset |-> offset, length |-> length]

RECURSIVE KeyOrder(_)
\* the keys of a JSON object in iteration order (std::map over the key strings)
KeyOrder(keys) ==
    IF keys = {} THEN <<>>
    ELSE LET k == CHOOSE x \in keys :
                    \A y \in keys \ {x} : LexLess(Digits(x), Digits(y))
         IN <<k>> \o KeyOrder(keys \ {k})

RECURSIVE WriteTerms(_, _, _)
\* the loop of convertBarrel over postings.items(): files = [bin, entries]
WriteTerms(files, postings, keys) ==
    IF keys = <<>> THEN files
    ELSE LET lemmaId == Head(keys)
             postingData == postings[lemmaId]
             offset == Tellp(files.bin)
             bin2 == files.bin \o BlockFields(lemmaId, postingData.df, postingData.docs)
             length == Tellp(bin2) - offset
         IN WriteTerms([bin |-> bin2,
                        entries |-> Append(files.entries, IdxEntry(lemmaId, offset, length))],
                       postings, Tail(keys))

\* the .bin/.idx pair convertBarrel writes for one JSON barrel
convertBarrel(barrel) ==
    LET keys == KeyOrder(DOMAIN barrel.postings)
        files == WriteTerms([bin |-> <<>>, entries |-> <<>>], barrel.postings, keys)
    IN [bin |-> files.bin,
        idx |-> [exists |-> TRUE, numEntries |-> Cardinality(DOMAIN barrel.postings),
                 entries |-> files.entries]]

NoIdx == [exists |-> FALSE, numEntries |-> 0, entries |-> <<>>]

(***************************************************************************)
(* Serving: cache initialisation and posting lookup                        *)
(***************************************************************************)
RECURSIVE LoadEntries(_, _, _)
\* g_cache.barrelIndices[barrelId][lemmaId] = {offset, length} for the first n entries
LoadEntries(m, entries, n) ==
    IF n <= 0 \/ entries = <<>> THEN m
    ELSE LoadEntries(Put(m, Head(entries).lemmaId,
                         [offset |-> Head(entries).offset, length |-> Head(entries).length]),
                     Tail(entries), n - 1)

\* the barrels initializeCache creates an offset map for, from the .idx files on disk
LoadedBarrels(idx) ==
    {b \in 0..NEW_DOCS : idx[b].exists /\ idx[b].numEntries > 0 /\ idx[b].entries # <<>>}

LoadIndices(idx) ==
    [b \in LoadedBarrels(idx) |-> LoadEntries(EmptyMap, idx[b].entries, idx[b].numEntries)]

\* the index of the field that starts at byte off (seekg), 0 when none does
FieldAt(bin, off) ==
    LET at == {k \in 1..Len(bin) : Tellp(SubSeq(bin, 1, k - 1)) = off}
    IN IF at = {} THEN 0 ELSE CHOOSE k \in at : TRUE

IsInt(bin, k) == k \in 1..Len(bin) /\ bin[k].sz = 4
IsBuf(bin, k) == k \in 1..Len(bin) /\ bin[k].sz = DOC_ID_SIZE

RECURSIVE CStr(_)
\* std::string(const char*): the bytes before the first null
CStr(buf) ==
    IF buf = <<>> \/ Head(buf) = 0 THEN <<>> ELSE <<Head(buf)>> \o CStr(Tail(buf))

\* faulty variant of DecodeDocId: the last byte of the buffer is never read
DecodeDocIdShort(buf) == CStr(SubSeq(buf, 1, Len(buf) - 2))

\* dp.docId = std::string(docIdBuf), then cut at find('\0') when there is one
DecodeDocId(buf) ==
    LET docId == CStr(buf)
        nullPos == IF \E k \in 1..Len(docId) : docId[k] = 0
                   THEN CHOOSE k \in 1..Len(docId) :
                            docId[k] = 0 /\ \A j \in 1..(k - 1) : docId[j] # 0
                   ELSE 0
    IN IF nullPos # 0 THEN SubSeq(docId, 1, nullPos - 1) ELSE docId

\* numDocs times: read(docIdBuf, 20); read(tf); the postings read before the
\* first read that does not find the field it expects
ReadPostings(bin, k, numDocs) ==
    LET Readable(j) == IsBuf(bin, k + 2 * (j - 1)) /\ IsInt(bin, k + 2 * j - 1)
        read == {0} \cup {n \in 1..numDocs : \A j \in 1..n : Readable(j)}
    IN [j \in 1..(CHOOSE n \in read : \A m \in read : m <= n) |->
          Posting(DecodeDocId(bin[k + 2 * (j - 1)].b), bin[k + 2 * j - 1].i)]

\* seekg(offset), the three header reads and the posting reads of one block;
\* valid is FALSE when a read does not find the field it expects
ReadBlock(bin, offset) ==
    With(FieldAt(bin, offset), LAMBDA k :
      With(k # 0 /\ IsInt(bin, k) /\ IsInt(bin, k + 1) /\ IsInt(bin, k + 2), LAMBDA hdr :
        With(IF hdr THEN bin[k + 2].i ELSE 0, LAMBDA numDocs :
          With(IF hdr THEN ReadPostings(bin, k + 3, numDocs) ELSE <<>>, LAMBDA docs :
            [valid |-> hdr /\ Len(docs) = numDocs,
             lemmaId |-> IF hdr THEN bin[k].i ELSE 0,
             df |-> IF hdr THEN bin[k + 1].i ELSE 0,
             numDocs |-> numDocs,
             docs |-> docs]))))

DocIdsOf(ps) == {ps[k].doc_id : k \in 1..Len(ps)}

\* faulty variant of NewPostings: no posting is skipped
NewPostingsAll(ps, existingDocs) == ps

\* the postings of the new_docs block whose doc id is not in existingDocs
NewPostings(ps, existingDocs) ==
    LET IsNew(p) == p.doc_id \notin existingDocs
    IN SelectSeq(ps, IsNew)

\* faulty variant of MergeNewDocs: df is not incremented
MergeKeepDf(lemmaId, postingsOut, dfOut, indices, bins) ==
    IF NEW_DOCS \in DOMAIN indices /\ lemmaId \in DOMAIN indices[NEW_DOCS]
    THEN With(ReadBlock(bins[NEW_DOCS], indices[NEW_DOCS][lemmaId].offset), LAMBDA blk :
           [postings |-> postingsOut \o NewPostings(blk.docs, DocIdsOf(postingsOut)),
            df |-> dfOut])
    ELSE [postings |-> postingsOut, df |-> dfOut]

\* the merge of the new_docs block into what the primary block gave
MergeNewDocs(lemmaId, postingsOut, dfOut, indices, bins) ==
    IF NEW_DOCS \in DOMAIN indices /\ lemmaId \in DOMAIN indices[NEW_DOCS]
    THEN With(ReadBlock(bins[NEW_DOCS], indices[NEW_DOCS][lemmaId].offset), LAMBDA blk :
           With(NewPostings(blk.docs, DocIdsOf(postingsOut)), LAMBDA fresh :
             [postings |-> postingsOut \o fresh, df |-> dfOut + Len(fresh)]))
    ELSE [postings |-> postingsOut, df |-> dfOut]

NotFound == [found |-> FALSE, df |-> 0, postings |-> <<>>, barrelId |-> -1]

\* findPostingsBinary of the semantic search executable
FindPostingsIn(lemmaId, lookup, indices, bins) ==
    IF lemmaId \notin DOMAIN lookup THEN NotFound
    ELSE LET barrelIdOut == lookup[lemmaId]
         IN IF barrelIdOut \notin DOMAIN indices THEN NotFound
            ELSE IF lemmaId \notin DOMAIN indices[barrelIdOut] THEN NotFound
            ELSE With(ReadBlock(bins[barrelIdOut], indices[barrelIdOut][lemmaId].offset),
                      LAMBDA blk :
                   With(IF barrelIdOut # NEW_DOCS
                        THEN MergeNewDocs(lemmaId, blk.docs, blk.df, indices, bins)
                        ELSE [postings |-> blk.docs, df |-> blk.df],
                        LAMBDA merged :
                     [found |-> TRUE, df |-> merged.df, postings |-> merged.postings,
                      barrelId |-> barrelIdOut]))

FindPostingsBinary(lemmaId) == FindPostingsIn(lemmaId, barrelLookup, barrelIndices, binFile)

(***************************************************************************)
(* Inputs: the lexicon and the corpora the pipeline is run on              *)
(***************************************************************************)
\* lexicon.bin: the word section and the positionally aligned lemma-ID section
LexiconWords == <<"covid", "vaccine", "vaccines", "shot", "jab">>
LexiconLemmas == <<0, 1, 1, 2, 3>>
UnknownWord == "xyzzy"
NewWord == "zxzz"

\* a document-ID of 1, DOC_ID_SIZE - 1 or 2 bytes, none of them a separator or null
DocId(i) ==
    LET n == IF i % 3 = 1 THEN 1 ELSE IF i % 3 = 2 THEN DOC_ID_SIZE - 1 ELSE 2
    IN [k \in 1..n |-> 64 + i]

\* term frequencies of lemmas 0..3 in one document
Profile(a, b, c, d) == <<a, b, c, d>>

Profiles ==
    <<Profile(1, 0, 0, 0), Profile(0, 1, 0, 0), Profile(1, 1, 0, 0),
      Profile(MaxTf, 1, 0, 0), Profile(0, 0, 1, 0), Profile(1, 0, 0, 1)>>

\* small corpora: documents 1..n, their profiles in non-decreasing order
SmallCorpora ==
    UNION {{[i \in 1..n |-> [id |-> DocId(i), tf |-> Profiles[c[i]]]] :
              c \in {x \in [1..n -> 1..Len(Profiles)] :
                       \A i \in 1..(n - 1) : x[i] <= x[i + 1]}} :
           n \in 1..MaxDocs}

\* a corpus with more than TOP_K documents: all hold lemma 0 with distinct
\* term frequencies, the last one holds lemma 0 and lemma 1 once each
BigDocs == TOP_K + 2
BigCorpus ==
    [i \in 1..BigDocs |->
        [id |-> DocId(i),
         tf |-> IF i = BigDocs THEN Profile(1, 1, 0, 0) ELSE Profile(50 + i, 0, 0, 0)]]

Corpora == SmallCorpora \cup {BigCorpus}

RECURSIVE PostingsOf(_, _)
\* the posting list of a lemma: one posting per document that holds it, in corpus order
PostingsOf(corpus, lemma) ==
    IF corpus = <<>> THEN <<>>
    ELSE (IF Head(corpus).tf[lemma + 1] > 0
          THEN <<Posting(Head(corpus).id, Head(corpus).tf[lemma + 1])>> ELSE <<>>)
         \o PostingsOf(Tail(corpus), lemma)

RECURSIVE LinesOf(_, _)
\* the inverted index file of a corpus: one line per lemma that has postings
LinesOf(corpus, lemmas) ==
    IF lemmas = <<>> THEN <<>>
    ELSE (IF PostingsOf(corpus, Head(lemmas)) # <<>>
          THEN <<FormatLine(Head(lemmas), PostingsOf(corpus, Head(lemmas)))>> ELSE <<>>)
         \o LinesOf(corpus, Tail(lemmas))

InvertedIndexOf(corpus) == LinesOf(corpus, <<0, 1, 2, 3>>)

(***************************************************************************)
(* Incremental indexer  (add-document)                                     *)
(***************************************************************************)
\* one posting block for the lemma appended to barrel_new_docs.bin and its
\* (lemma-ID, offset, length) appended to barrel_new_docs.idx
AppendDelta(files, docId, lemmaId, tf) ==
    LET offset == Tellp(files.bin)
        bin2 == files.bin \o BlockFields(lemmaId, 1, <<Posting(docId, tf)>>)
    IN [bin |-> bin2,
        idx |-> [exists |-> TRUE, numEntries |-> files.idx.numEntries + 1,
                 entries |-> Append(files.idx.entries,
                                    IdxEntry(lemmaId, offset, Tellp(bin2) - offset))]]

RECURSIVE AppendAll(_, _, _)
\* the blocks of one document, lemma by lemma; tfs is a sequence of [lemmaId, tf]
AppendAll(files, docId, tfs) ==
    IF tfs = <<>> THEN files
    ELSE AppendAll(AppendDelta(files, docId, Head(tfs).lemmaId, Head(tfs).tf), docId, Tail(tfs))

\* the in-memory delta offset map after the entries of one document
DeltaMap(indices, idx) == Put(indices, NEW_DOCS, LoadEntries(EmptyMap, idx.entries, idx.numEntries))

\* the documents an upload may carry: their words with term frequencies
Uploads == {<<[word |-> "covid", tf |-> 1]>>,
            <<[word |-> "covid", tf |-> MaxTf], [word |-> NewWord, tf |-> 1]>>}

UploadId(k) == <<48 + k, 48 + k>>

NextLemmaId(w2l) == 1 + CHOOSE m \in {w2l[w] : w \in DOMAIN w2l} :
                            \A x \in DOMAIN w2l : w2l[x] <= m

(***************************************************************************)
(* Scoring.  Scores are fixed-point: logarithms, tf-idf values, weights    *)
(* and document scores in 1/1000, similarities in 1/100, total scores in   *)
(* 1/10000.                                                                *)
(***************************************************************************)
Log10Table ==
    <<0, 301, 477, 602, 699, 778, 845, 903, 954, 1000, 1041, 1079, 1114, 1146, 1176,
      1204, 1230, 1255, 1279, 1301, 1322, 1342, 1362, 1380, 1398, 1415, 1431, 1447,
      1462, 1477, 1491, 1505, 1519, 1531, 1544, 1556, 1568, 1580, 1591, 1602, 1613,
      1623, 1633, 1643, 1653, 1663, 1672, 1681, 1690, 1699, 1708, 1716, 1724, 1732,
      1740, 1748, 1756, 1763, 1771, 1778, 1785, 1792, 1799, 1806, 1813, 1820, 1826,
      1833, 1839, 1845, 1851, 1857, 1863, 1869, 1875, 1881, 1886, 1892, 1898, 1903,
      1908, 1914, 1919, 1924, 1929, 1934, 1940, 1944, 1949, 1954, 1959, 1964, 1968,
      1973, 1978, 1982, 1987, 1991, 1996>>

\* 1000 * log10(TOTAL_DOCS)
LogTotalDocs == 4771

\* 1000 * log10(n) for the larger document frequencies scored
Log10Large ==
    [n \in {100, 1000, 10000, TOTAL_DOCS, 100000} |->
        IF n = 100 THEN 2000 ELSE IF n = 1000 THEN 3000 ELSE IF n = 10000 THEN 4000
        ELSE IF n = TOTAL_DOCS THEN LogTotalDocs ELSE 5000]

\* 1000 * log10(n) for 1 <= n <= 99 and for the values of Log10Large
Log10Milli(n) == IF n <= Len(Log10Table) THEN Log10Table[n] ELSE Log10Large[n]

\* (1 + log10(tf)) * log10(totalDocs / df), 0 when tf or df is 0
calculateTFIDF(tf, df) ==
    IF tf = 0 \/ df = 0 THEN 0
    ELSE ((1000 + Log10Milli(tf)) * (LogTotalDocs - Log10Milli(df))) \div 1000

\* doc_scores: the optional artifact is absent, every document gets the default
docScores == EmptyMap

getDocScore(docId) ==
    IF docId \in DOMAIN docScores THEN docScores[docId] ELSE DEFAULT_DOC_SCORE

(***************************************************************************)
(* Embeddings and query expansion                                          *)
(***************************************************************************)
\* the words that have an embedding and the non-zero leading components of
\* their unit vectors, in 1/10; the other components up to EMBEDDING_DIM are 0
EmbeddingWords == {"shot", "vaccine", "jab", "covid"}

EmbeddingHead(w) ==
    IF w = "shot" THEN <<10, 0, 0, 0>>
    ELSE IF w = "vaccine" THEN <<8, 6, 0, 0>>
    ELSE IF w = "jab" THEN <<6, 0, 8, 0>>
    ELSE <<0, 0, 0, 10>>

\* embeddings.bin with unit vectors
UnitStore == [w \in EmbeddingWords |-> EmbeddingHead(w)]

\* embeddings.bin with unit vectors of which two are the same: "vaccine" has
\* the vector of "shot", the greatest similarity two words can have
SameStore ==
    [w \in EmbeddingWords |-> IF w = "vaccine" THEN EmbeddingHead("shot") ELSE EmbeddingHead(w)]

Stores == {UnitStore, SameStore}

\* the array loadEmbeddings reads for a word: the floats of the file as they are
Vector(store, w) ==
    [i \in 1..EMBEDDING_DIM |-> IF i <= Len(store[w]) THEN store[w][i] ELSE 0]

Embedding(w) == Vector(embeddings, w)

RECURSIVE DotFrom(_, _, _)
DotFrom(a, b, i) == IF i > EMBEDDING_DIM THEN 0 ELSE a[i] * b[i] + DotFrom(a, b, i + 1)

\* the dot product of two embeddings, in 1/100
cosineSimilarity(a, b) == DotFrom(a, b, 1)

\* the similarities of each store, computed once
SimilarityOf ==
    [store \in Stores |->
        [a \in EmbeddingWords |->
            [b \in EmbeddingWords |->
                cosineSimilarity(Vector(store, a), Vector(store, b))]]]

\* the similarities of the loaded embeddings
Similarity == SimilarityOf[embeddings]

\* the lemma of a similar word, -1 when the lexicon does not know it
SimilarLemma(w) ==
    IF w \in DOMAIN wordToWordId /\ wordToWordId[w] \in DOMAIN wordIdToLemmaId
    THEN wordIdToLemmaId[wordToWordId[w]]
    ELSE -1

\* the spelling of the lexicon words, as bytes
Spell == [covid |-> <<99, 111, 118, 105, 100>>,
          vaccine |-> <<118, 97, 99, 99, 105, 110, 101>>,
          vaccines |-> <<118, 97, 99, 99, 105, 110, 101, 115>>,
          shot |-> <<115, 104, 111, 116>>,
          jab |-> <<106, 97, 98>>]

\* vocab.json and the order in which the unordered_map is iterated
Vocab(order) ==
    [idx |-> [w \in EmbeddingWords |->
                 IF w = "shot" THEN 0 ELSE IF w = "vaccine" THEN 1
                 ELSE IF w = "jab" THEN 2 ELSE 3],
     order |-> order]

BuiltVocab == Vocab(<<"shot", "vaccine", "jab", "covid">>)

\* std::pair<float, std::string> operator<
PairLess(a, b) ==
    \/ a.similarity < b.similarity
    \/ a.similarity = b.similarity /\ LexLess(Spell[a.word], Spell[b.word])

\* pq.top() of the min-heap: the least pair
Top(pq) == CHOOSE a \in pq : \A b \in pq : a = b \/ PairLess(a, b)

RECURSIVE SimilarQueue(_, _, _, _)
\* the loop over wordToEmbIdx that keeps the topK pairs in the queue
SimilarQueue(pq, word, ws, topK) ==
    IF ws = <<>> THEN pq
    ELSE IF Head(ws) = word THEN SimilarQueue(pq, word, Tail(ws), topK)
    ELSE LET sim == [similarity |-> Similarity[word][Head(ws)], word |-> Head(ws)]
         IN SimilarQueue(IF Cardinality(pq) < topK THEN pq \cup {sim}
                         ELSE IF sim.similarity > Top(pq).similarity
                              THEN (pq \ {Top(pq)}) \cup {sim}
                              ELSE pq,
                         word, Tail(ws), topK)

RECURSIVE Drain(_)
\* the queue popped from the least pair on, then reversed
Drain(pq) ==
    IF pq = {} THEN <<>>
    ELSE Drain(pq \ {Top(pq)})
         \o <<[word |-> Top(pq).word, similarity |-> Top(pq).similarity,
               lemmaId |-> SimilarLemma(Top(pq).word)]>>

\* findSimilarWords: the topK most similar other words, most similar first
findSimilarWords(word, topK) ==
    IF word \notin DOMAIN wordToEmbIdx.idx THEN <<>>
    ELSE Drain(SimilarQueue({}, word, wordToEmbIdx.order, topK))

\* getLemmaIdForWord of the semantic search executable
getLemmaIdForWord(word) ==
    IF word \notin DOMAIN wordToWordId THEN [found |-> FALSE, lemmaId |-> -1]
    ELSE LET wordId == wordToWordId[word]
         IN [found |-> TRUE,
             lemmaId |-> IF wordId \in DOMAIN wordIdToLemmaId
                         THEN wordIdToLemmaId[wordId] ELSE wordId]

SIMILARITY_THRESHOLD == 50

RECURSIVE AddSimilarFull(_, _)
\* faulty variant of AddSimilar: the weight is the similarity itself
AddSimilarFull(acc, similar) ==
    IF similar = <<>> THEN acc
    ELSE With(Head(similar), LAMBDA sim :
           With(IF sim.lemmaId >= 0 /\ sim.similarity > SIMILARITY_THRESHOLD
                   /\ sim.lemmaId \notin acc.seenLemmas
                THEN [terms |-> Append(acc.terms,
                                       [word |-> sim.word, lemmaId |-> sim.lemmaId,
                                        weight |-> sim.similarity * 10]),
                      seenLemmas |-> acc.seenLemmas \cup {sim.lemmaId}]
                ELSE acc,
                LAMBDA next : AddSimilarFull(next, Tail(similar))))

RECURSIVE AddSimilar(_, _)
\* the inner loop of expandQuery over the similar words of one query word
AddSimilar(acc, similar) ==
    IF similar = <<>> THEN acc
    ELSE With(Head(similar), LAMBDA sim :
           With(IF sim.lemmaId >= 0 /\ sim.similarity > SIMILARITY_THRESHOLD
                   /\ sim.lemmaId \notin acc.seenLemmas
                THEN [terms |-> Append(acc.terms,
                                       [word |-> sim.word, lemmaId |-> sim.lemmaId,
                                        weight |-> sim.similarity * 5]),
                      seenLemmas |-> acc.seenLemmas \cup {sim.lemmaId}]
                ELSE acc,
                LAMBDA next : AddSimilar(next, Tail(similar))))

RECURSIVE ExpandFrom(_, _)
\* the outer loop of expandQuery over the query words
ExpandFrom(acc, queryWords) ==
    IF queryWords = <<>> THEN acc
    ELSE With(getLemmaIdForWord(Head(queryWords)), LAMBDA l :
           With(IF l.found /\ l.lemmaId \notin acc.seenLemmas
                THEN [terms |-> Append(acc.terms,
                                       [word |-> Head(queryWords), lemmaId |-> l.lemmaId,
                                        weight |-> 1000]),
                      seenLemmas |-> acc.seenLemmas \cup {l.lemmaId}]
                ELSE acc,
                LAMBDA own :
             With(AddSimilar(own, findSimilarWords(Head(queryWords), TOP_SIMILAR_WORDS)),
                  LAMBDA next : ExpandFrom(next, Tail(queryWords)))))

expandQuery(queryWords) == ExpandFrom([terms |-> <<>>, seenLemmas |-> {}], queryWords).terms

(***************************************************************************)
(* Search: scoring of the postings, mode filter, sort, top-K               *)
(***************************************************************************)
NewResult(docId, totalTerms) ==
    [docId |-> docId, totalScore |-> 0, tfidfScore |-> 0, semanticScore |-> 0,
     pagerankScore |-> getDocScore(docId), matchedTerms |-> 0, totalTerms |-> totalTerms,
     tf |-> 0]

RECURSIVE SumTfidf(_, _, _)
\* the tf-idf values of the postings at the positions ks, summed
SumTfidf(postings, ks, df) ==
    IF ks = {} THEN 0
    ELSE LET k == CHOOSE x \in ks : TRUE
         IN calculateTFIDF(postings[k].tf, df) + SumTfidf(postings, ks \ {k}, df)

RECURSIVE SumWeighted(_, _, _, _)
\* the same sum, each value multiplied by the weight of the term
SumWeighted(postings, ks, df, weight) ==
    IF ks = {} THEN 0
    ELSE LET k == CHOOSE x \in ks : TRUE
         IN (calculateTFIDF(postings[k].tf, df) * weight) \div 1000
            + SumWeighted(postings, ks \ {k}, df, weight)

\* the loop of semanticSearch over the postings of one expanded term
ScorePostings(docResults, term, postings, df, originalTermCount) ==
    [d \in (DOMAIN docResults) \cup DocIdsOf(postings) |->
        LET old == IF d \in DOMAIN docResults THEN docResults[d]
                   ELSE NewResult(d, originalTermCount)
            hits == {k \in 1..Len(postings) : postings[k].doc_id = d}
            score == SumWeighted(postings, hits, df, term.weight)
        IN [old EXCEPT !.tfidfScore = @ + score,
                       !.semanticScore = @ + (IF term.weight < 1000 THEN score ELSE 0),
                       !.matchedTerms = @ + (IF term.weight >= 1000
                                             THEN Cardinality(hits) ELSE 0)]]

RECURSIVE ScoreTerms(_, _, _)
\* the loop of semanticSearch over the expanded terms
ScoreTerms(docResults, terms, originalTermCount) ==
    IF terms = <<>> THEN docResults
    ELSE With(FindPostingsBinary(Head(terms).lemmaId), LAMBDA r :
           With(IF r.found
                THEN ScorePostings(docResults, Head(terms), r.postings, r.df,
                                   originalTermCount)
                ELSE docResults,
                LAMBDA scored : ScoreTerms(scored, Tail(terms), originalTermCount)))

\* faulty variant of RequiredTerms: AND mode asks for no matched term
RequiredTermsNone(mode, termCount) == IF mode = "AND" THEN 0 ELSE 1

\* the number of matched terms a document needs to be kept
RequiredTerms(mode, termCount) == IF mode = "AND" THEN termCount ELSE 1

\* TFIDF_WEIGHT * tfidf + SEMANTIC_WEIGHT * semantic + PAGERANK_WEIGHT * pagerank
TotalScore(result) ==
    TFIDF_WEIGHT * result.tfidfScore + SEMANTIC_WEIGHT * result.semanticScore
    + PAGERANK_WEIGHT * result.pagerankScore

\* the results of semanticSearch before the sort
SemanticResults(queryWords, mode) ==
    LET originalTermCount == Len(queryWords)
        requiredTerms == RequiredTerms(mode, originalTermCount)
    IN With(expandQuery(queryWords), LAMBDA expandedTerms :
         With(ScoreTerms(EmptyMap, expandedTerms, originalTermCount), LAMBDA docResults :
           {[docResults[d] EXCEPT !.totalScore = TotalScore(docResults[d])] :
              d \in {x \in DOMAIN docResults :
                        docResults[x].matchedTerms >= requiredTerms}}))

Abs(x) == IF x < 0 THEN -x ELSE x

SCORE_EPSILON == 1

\* the comparators handed to std::sort: TRUE when a goes before b
Comp(kind, a, b) ==
    IF kind = "semantic" THEN a.totalScore > b.totalScore
    ELSE IF kind = "multi"
    THEN IF Abs(a.totalScore - b.totalScore) > SCORE_EPSILON
         THEN a.totalScore > b.totalScore
         ELSE a.matchedTerms > b.matchedTerms
    ELSE IF Abs(a.totalScore - b.totalScore) > SCORE_EPSILON THEN a.totalScore > b.totalScore
    ELSE IF a.tf # b.tf THEN a.tf > b.tf
    ELSE LexLess(a.docId, b.docId)

RECURSIVE SortOutcomes(_, _)
\* the sequences std::sort may leave: no element is preceded by one the
\* comparator puts after it; elements the comparator does not order come
\* in any order
SortOutcomes(results, kind) ==
    IF results = {} THEN {<<>>}
    ELSE With({m \in results : \A x \in results : ~Comp(kind, x, m)}, LAMBDA first :
           UNION {UNION {{<<m>> \o tail : tail \in SortOutcomes(rest, kind)} :
                           rest \in {results \ {m}}} :
                    m \in (IF first = {} THEN results ELSE first)})

\* the first TOP_K results, which main prints
TopK(results) == SubSeq(results, 1, Min(TOP_K, Len(results)))

DocIds(results) == {results[k].docId : k \in 1..Len(results)}

(***************************************************************************)
(* The optimized search executable (single-word and multi-word queries)    *)
(***************************************************************************)
\* its cache: the lexicon and lookup table on disk, the .idx of barrels 0..9
PrimaryIndices ==
    [b \in LoadedBarrels(idxFile) \ {NEW_DOCS} |->
        LoadEntries(EmptyMap, idxFile[b].entries, idxFile[b].numEntries)]

\* lexicon.bin: the words in word-ID order, then their lemma IDs
LexiconBin(words, lemmas) == [exists |-> TRUE, words |-> words, lemmas |-> lemmas]

\* lexicon.json: "wordID" by word, "wordToLemmaID" by the word-ID as text
LexiconJson(words, lemmas) ==
    [exists |-> TRUE,
     wordID |-> [w \in SeqToSet(words) |-> (CHOOSE i \in 1..Len(words) : words[i] = w) - 1],
     wordToLemmaID |-> [k \in {<<Num(i - 1)>> : i \in 1..Len(lemmas)} |->
                           lemmas[k[1].v + 1]]]

NoLexiconBin == [exists |-> FALSE, words |-> <<>>, lemmas |-> <<>>]
NoLexiconJson == [exists |-> FALSE, wordID |-> EmptyMap, wordToLemmaID |-> EmptyMap]

\* loadBinaryLexicon of the semantic search executable
loadBinaryLexicon(file) ==
    [w2id |-> [w \in SeqToSet(file.words) |->
                  (CHOOSE i \in 1..Len(file.words) : file.words[i] = w) - 1],
     id2l |-> [i \in 0..(Len(file.lemmas) - 1) |-> file.lemmas[i + 1]]]

\* the JSON fallback of initializeCache: both maps, the keys parsed by stoi
loadJsonLexicon(file) ==
    [w2id |-> file.wordID,
     id2l |-> [i \in {Stoi(k) : k \in DOMAIN file.wordToLemmaID} |->
                  file.wordToLemmaID[CHOOSE k \in DOMAIN file.wordToLemmaID : Stoi(k) = i]]]

\* the lexicon of the cache: lexicon.bin first, lexicon.json when it is missing
LoadLexicon(files) ==
    IF files.bin.exists THEN loadBinaryLexicon(files.bin) ELSE loadJsonLexicon(files.json)

\* getLemmaIdForWord of the optimized search executable: wordToLemmaId of the
\* binary lexicon, else the entry of "wordID" in the JSON lexicon
WordLemma(word) ==
    IF lexiconFiles.bin.exists
    THEN IF word \in DOMAIN wordToWordId
         THEN [found |-> TRUE, lemmaId |-> wordIdToLemmaId[wordToWordId[word]]]
         ELSE [found |-> FALSE, lemmaId |-> -1]
    ELSE IF word \in DOMAIN lexiconFiles.json.wordID
         THEN [found |-> TRUE, lemmaId |-> lexiconFiles.json.wordID[word]]
         ELSE [found |-> FALSE, lemmaId |-> -1]

\* findPostings: the primary block, without the new_docs merge; the JSON barrel
\* when the binary lookup fails
FindPostings(lemmaId) ==
    IF lemmaId \notin DOMAIN lookupFile.map THEN NotFound
    ELSE With(PrimaryIndices, LAMBDA idx :
           LET barrelIdOut == lookupFile.map[lemmaId]
           IN IF barrelIdOut \in DOMAIN idx /\ lemmaId \in DOMAIN idx[barrelIdOut]
              THEN With(ReadBlock(binFile[barrelIdOut], idx[barrelIdOut][lemmaId].offset),
                        LAMBDA blk : [found |-> TRUE, df |-> blk.df, postings |-> blk.docs,
                                      barrelId |-> barrelIdOut])
              ELSE IF barrelIdOut \in DOMAIN jsonBarrels
                      /\ lemmaId \in DOMAIN jsonBarrels[barrelIdOut].postings
              THEN [found |-> TRUE, df |-> jsonBarrels[barrelIdOut].postings[lemmaId].df,
                    postings |-> jsonBarrels[barrelIdOut].postings[lemmaId].docs,
                    barrelId |-> barrelIdOut]
              ELSE NotFound)

RECURSIVE AllPostings(_)
\* the posting lists of the query words that have a lemma and postings
AllPostings(queryWords) ==
    IF queryWords = <<>> THEN <<>>
    ELSE With(WordLemma(Head(queryWords)), LAMBDA l :
           With(IF l.found THEN FindPostings(l.lemmaId) ELSE NotFound, LAMBDA r :
             (IF r.found THEN <<r>> ELSE <<>>) \o AllPostings(Tail(queryWords))))

\* the score map of processMultiWordQuery over the posting lists
MultiWordScores(allPostings) ==
    [d \in UNION {DocIdsOf(allPostings[i].postings) : i \in 1..Len(allPostings)} |->
        LET Hits(i) == {k \in 1..Len(allPostings[i].postings) :
                            allPostings[i].postings[k].doc_id = d}
            Score[i \in 0..Len(allPostings)] ==
                IF i = 0 THEN 0
                ELSE Score[i - 1]
                     + SumTfidf(allPostings[i].postings, Hits(i), allPostings[i].df)
            Matched[i \in 0..Len(allPostings)] ==
                IF i = 0 THEN 0 ELSE Matched[i - 1] + Cardinality(Hits(i))
        IN [NewResult(d, Len(allPostings)) EXCEPT
               !.totalScore = Score[Len(allPostings)],
               !.matchedTerms = Matched[Len(allPostings)],
               !.pagerankScore = 0]]

\* the results of processMultiWordQuery before the sort
MultiWordResults(queryWords, mode) ==
    With(AllPostings(queryWords), LAMBDA allPostings :
      IF allPostings = <<>> THEN {}
      ELSE With(MultiWordScores(allPostings), LAMBDA scores :
             {scores[d] : d \in {x \in DOMAIN scores :
                                    scores[x].matchedTerms
                                        >= RequiredTerms(mode, Len(allPostings))}}))

\* the results of processSingleWordQuery before the sort
SingleWordResults(word) ==
    With(WordLemma(word), LAMBDA l :
      With(IF l.found THEN FindPostings(l.lemmaId) ELSE NotFound, LAMBDA r :
        {[NewResult(r.postings[k].doc_id, 1) EXCEPT
             !.totalScore = calculateTFIDF(r.postings[k].tf, r.df),
             !.tf = r.postings[k].tf, !.matchedTerms = 1, !.pagerankScore = 0] :
           k \in 1..Len(r.postings)}))

(***************************************************************************)
(* Autocomplete  (loadAutocomplete, getAutocompleteSuggestions)            *)
(*                                                                         *)
(* Words, phrases and prefixes are strings of byte codes.                  *)
(***************************************************************************)
AUTOCOMPLETE_SUGGESTIONS == 5
BUCKET_LIMIT == 50

\* toLower: std::tolower over every byte
toLower(str) == [k \in 1..Len(str) |-> IF str[k] \in 65..90 THEN str[k] + 32 ELSE str[k]]

\* std::string::substr(0, n)
Substr(str, n) == SubSeq(str, 1, Min(n, Len(str)))

\* s.word.find(lowerPrefix) == 0
StartsWith(word, lowerPrefix) ==
    /\ Len(lowerPrefix) <= Len(word)
    /\ SubSeq(word, 1, Len(lowerPrefix)) = lowerPrefix

\* one line "word|df" of trie.txt
TrieLine(word, df) == Chars(word) \o <<Ch(BAR), Num(df)>>

\* the {word, df} a line of trie.txt with a '|' is parsed into
TrieEntry(line) ==
    LET sep == Find(line, BAR, 1)
    IN [word |-> Bytes(SubSeq(line, 1, sep - 1)),
        df |-> Stoi(SubSeq(line, sep + 1, Len(line)))]

\* the entries read from trie.txt, in file order: lines without '|' are skipped
TrieEntries(lines) ==
    LET kept == SelectSeq(lines, LAMBDA line : Find(line, BAR, 1) # 0)
    IN [k \in 1..Len(kept) |-> TrieEntry(kept[k])]

\* faulty variant of DfBefore: ascending
DfBeforeAsc(a, b) == a.df < b.df

\* the comparator of the sort of a prefix group: TRUE when a goes before b
DfBefore(a, b) == a.df > b.df

RECURSIVE SortedByDf(_, _)
\* the orders std::sort may leave the entries at the positions ks in
SortedByDf(entries, ks) ==
    IF ks = {} THEN {<<>>}
    ELSE UNION {{<<entries[m]>> \o tail : tail \in SortedByDf(entries, ks \ {m})} :
                  m \in {m \in ks : \A x \in ks : ~DfBefore(entries[x], entries[m])}}

\* suggestions.resize(50) when there are more
Resize(suggestions) == SubSeq(suggestions, 1, Min(BUCKET_LIMIT, Len(suggestions)))

\* the prefix indexes a pass over the entries may build for prefixes of n
\* bytes: each word of at least n bytes goes to the group of its first n
\* bytes, each group is sorted by df descending and cut to the limit
PrefixBuckets(entries, n) ==
    LET long == {k \in 1..Len(entries) : Len(entries[k].word) >= n}
        prefixes == {Substr(entries[k].word, n) : k \in long}
        Group(p) == {k \in long : Substr(entries[k].word, n) = p}
        Outcomes == [p \in prefixes |-> {Resize(o) : o \in SortedByDf(entries, Group(p))}]
    IN {f \in [prefixes -> UNION {Outcomes[p] : p \in prefixes}] :
          \A p \in prefixes : f[p] \in Outcomes[p]}

\* the union of two maps with disjoint keys
Merge(f, g) == [k \in (DOMAIN f) \cup (DOMAIN g) |-> IF k \in DOMAIN f THEN f[k] ELSE g[k]]

\* what loadAutocomplete may leave in g_cache: [index, loaded]
loadAutocomplete(files) ==
    IF ~files.json.exists
    THEN IF files.trie.exists
         THEN {[index |-> idx, loaded |-> TRUE] :
                 idx \in PrefixBuckets(TrieEntries(files.trie.lines), 2)}
         ELSE {[index |-> autocompleteIndex, loaded |-> autocompleteLoaded]}
    ELSE {[index |-> files.json.buckets, loaded |-> TRUE]}

RECURSIVE FromBucket3(_, _, _, _)
\* the loop over the 3-byte bucket: matching entries are pushed until there
\* are maxSuggestions of them
FromBucket3(suggestions, bucket, lowerPrefix, maxSuggestions) ==
    IF bucket = <<>> \/ Len(suggestions) >= maxSuggestions THEN suggestions
    ELSE FromBucket3(IF StartsWith(Head(bucket).word, lowerPrefix)
                     THEN Append(suggestions, Head(bucket))
                     ELSE suggestions,
                     Tail(bucket), lowerPrefix, maxSuggestions)

\* faulty variant of Duplicate: nothing is taken for a duplicate
DuplicateNever(suggestions, word) == FALSE

\* the word is already among the suggestions
Duplicate(suggestions, word) == \E k \in 1..Len(suggestions) : suggestions[k].word = word

RECURSIVE FromBucket2(_, _, _, _)
\* the loop over the 2-byte bucket: as above, skipping the words already there
FromBucket2(suggestions, bucket, lowerPrefix, maxSuggestions) ==
    IF bucket = <<>> \/ Len(suggestions) >= maxSuggestions THEN suggestions
    ELSE FromBucket2(IF /\ StartsWith(Head(bucket).word, lowerPrefix)
                        /\ ~Duplicate(suggestions, Head(bucket).word)
                     THEN Append(suggestions, Head(bucket))
                     ELSE suggestions,
                     Tail(bucket), lowerPrefix, maxSuggestions)

getAutocompleteSuggestions(prefix, maxSuggestions) ==
    IF ~autocompleteLoaded \/ prefix = <<>> THEN <<>>
    ELSE LET lowerPrefix == toLower(prefix)
             prefix3 == Substr(lowerPrefix, 3)
             prefix2 == Substr(lowerPrefix, 2)
             first == IF Len(lowerPrefix) >= 3 /\ prefix3 \in DOMAIN autocompleteIndex
                      THEN FromBucket3(<<>>, autocompleteIndex[prefix3], lowerPrefix,
                                       maxSuggestions)
                      ELSE <<>>
         IN IF /\ Len(first) < maxSuggestions
               /\ Len(lowerPrefix) >= 2
               /\ prefix2 \in DOMAIN autocompleteIndex
            THEN FromBucket2(first, autocompleteIndex[prefix2], lowerPrefix, maxSuggestions)
            ELSE first

SPACE == 32

\* faulty variant of run_autocomplete: every prefix goes to the search executable
run_autocompleteSingle(prefix) == getAutocompleteSuggestions(prefix, AUTOCOMPLETE_SUGGESTIONS)

\* run_autocomplete of the API server: a prefix with a space is answered from
\* the n-gram index when there is one, any other by the search executable
run_autocomplete(prefix) ==
    IF (\E k \in 1..Len(prefix) : prefix[k] = SPACE) /\ autoFiles.ngram.exists
    THEN LET suggestions == IF prefix \in DOMAIN autoFiles.ngram.buckets
                            THEN autoFiles.ngram.buckets[prefix]
                            ELSE <<>>
         IN SubSeq(suggestions, 1, Min(5, Len(suggestions)))
    ELSE getAutocompleteSuggestions(prefix, AUTOCOMPLETE_SUGGESTIONS)

\* the vocabulary autocomplete.json and trie.txt are generated from:
\* co, coal, cover, covid, coven, covet, coves, covey, cat, c
AutoWords ==
    << <<99, 111>>, <<99, 111, 97, 108>>, <<99, 111, 118, 101, 114>>,
       <<99, 111, 118, 105, 100>>, <<99, 111, 118, 101, 110>>,
       <<99, 111, 118, 101, 116>>, <<99, 111, 118, 101, 115>>,
       <<99, 111, 118, 101, 121>>, <<99, 97, 116>>, <<99>> >>

\* the document frequencies of the words: all different, or with ties
AutoDfs ==
    { <<90, 80, 30, 70, 20, 40, 10, 50, 60, 95>>,
      <<50, 50, 30, 30, 20, 40, 10, 10, 60, 95>> }

Vocabulary(dfs) == [k \in 1..Len(AutoWords) |-> [word |-> AutoWords[k], df |-> dfs[k]]]

\* a vocabulary of more words than a bucket keeps: "cov" and two more
\* letters, the k-th word with df k
BigVocabulary ==
    [k \in 1..(BUCKET_LIMIT + 2) |->
        [word |-> <<99, 111, 118, 97 + ((k - 1) \div 26), 97 + ((k - 1) % 26)>>, df |-> k]]

Vocabularies == {Vocabulary(dfs) : dfs \in AutoDfs} \cup {BigVocabulary}

\* the autocomplete.json files the generator may write for a vocabulary: the
\* 2-byte and the 3-byte buckets, each sorted by df descending and cut
GeneratedIndexes(vocabulary) ==
    {Merge(two, three) : two \in PrefixBuckets(vocabulary, 2),
                         three \in PrefixBuckets(vocabulary, 3)}

\* trie.txt of a vocabulary
TrieLines(vocabulary) ==
    [k \in 1..Len(vocabulary) |-> TrieLine(vocabulary[k].word, vocabulary[k].df)]

\* "covid vaccine" and "covid various"
CovidVaccine == <<99, 111, 118, 105, 100, 32, 118, 97, 99, 99, 105, 110, 101>>
CovidVarious == <<99, 111, 118, 105, 100, 32, 118, 97, 114, 105, 111, 117, 115>>

\* ngram_autocomplete.json for the two phrases with their corpus counts: a
\* bucket for every prefix of a phrase that holds a space, the phrases of the
\* bucket by count descending
NgramIndexes(counts) ==
    LET phrases == <<[phrase |-> CovidVaccine, count |-> counts[1]],
                     [phrase |-> CovidVarious, count |-> counts[2]]>>
        keys == {Substr(phrases[k].phrase, n) : k \in 1..2, n \in 6..13}
        Of(key) == {k \in 1..2 : StartsWith(phrases[k].phrase, key)}
        tied == IF counts[1] = counts[2] THEN {key \in keys : Of(key) = {1, 2}} ELSE {}
        Order(key, flip) ==
            IF Of(key) = {1} THEN <<1>>
            ELSE IF Of(key) = {2} THEN <<2>>
            ELSE IF counts[1] < counts[2] \/ flip THEN <<2, 1>>
            ELSE <<1, 2>>
    IN {[key \in keys |-> [i \in 1..Len(Order(key, key \in flips)) |->
                              phrases[Order(key, key \in flips)[i]]]] :
          flips \in SUBSET tied}

NgramCounts == {<<9, 4>>, <<4, 9>>, <<6, 6>>}

(***************************************************************************)
(* State machine                                                           *)
(***************************************************************************)
NoFiles == [bin |-> <<>>, idx |-> NoIdx]

NoOut == [op |-> "none", lemmaId |-> -1, found |-> FALSE, df |-> 0, postings |-> <<>>,
          query |-> <<>>, mode |-> "none", results |-> <<>>, shown |-> <<>>]

\* neither autocomplete.json nor trie.txt nor ngram_autocomplete.json exists
NoAutoFiles == [json |-> [exists |-> FALSE, buckets |-> EmptyMap],
                trie |-> [exists |-> FALSE, lines |-> <<>>],
                ngram |-> [exists |-> FALSE, buckets |-> EmptyMap]]

\* no build tool has exited yet
NoExit == [tool |-> "none", fault |-> "none", code |-> 0]

\* the lexicon as the index build leaves it: both files, the same content
BuiltLexicon == [bin |-> LexiconBin(LexiconWords, LexiconLemmas),
                 json |-> LexiconJson(LexiconWords, LexiconLemmas)]

\* no frontend session, no forward index build
NoApp == [query |-> <<>>]
FrontIdle ==
    /\ lexiconFiles = BuiltLexicon
    /\ dataset = <<>>
    /\ forwardIndexFile = <<>>
    /\ app = NoApp
    /\ wordToEmbIdx = BuiltVocab

\* the delta barrel an earlier session left on disk: empty, or the block of the
\* first document of the corpus, uploaded before the primaries were rebuilt
PriorDelta(corpus, prior) ==
    IF prior /\ corpus[1].tf[1] > 0
    THEN AppendDelta(NoFiles, corpus[1].id, 0, corpus[1].tf[1])
    ELSE NoFiles

Init ==
    \E corpus \in Corpora, prior \in BOOLEAN :
        LET delta == PriorDelta(corpus, prior)
        IN /\ pc = "partition"
           /\ invIndexFile = InvertedIndexOf(corpus)
           /\ jsonBarrels = [b \in 0..(numBarrels - 1) |-> EmptyBarrel]
           /\ lookupFile = [exists |-> FALSE, map |-> EmptyMap]
           /\ binFile = [b \in 0..NEW_DOCS |-> IF b = NEW_DOCS THEN delta.bin ELSE <<>>]
           /\ idxFile = [b \in 0..NEW_DOCS |-> IF b = NEW_DOCS THEN delta.idx ELSE NoIdx]
           /\ convI = 0
           /\ initialized = FALSE
           /\ barrelLookup = EmptyMap
           /\ barrelIndices = EmptyMap
           /\ wordToWordId = EmptyMap
           /\ wordIdToLemmaId = EmptyMap
           /\ added = IF delta.bin # <<>>
                      THEN <<[doc_id |-> corpus[1].id, prior |-> TRUE,
                              tfs |-> <<[lemmaId |-> 0, tf |-> corpus[1].tf[1]]>>]>>
                      ELSE <<>>
           /\ out = NoOut
           /\ embeddings = UnitStore
           /\ autoFiles = NoAutoFiles
           /\ autocompleteIndex = EmptyMap
           /\ autocompleteLoaded = FALSE
           /\ toolExit = NoExit
           /\ FrontIdle

\* the barrel partitioner: createFromInvertedIndex, then saveBarrels
Partition ==
    /\ pc = "partition"
    /\ IF \E i \in 1..Len(invIndexFile) : LineThrows(invIndexFile[i])
       THEN /\ pc' = "failed"
            /\ UNCHANGED jsonBarrels
       ELSE /\ pc' = "lookup"
            /\ jsonBarrels' = createFromInvertedIndex(invIndexFile)
    /\ UNCHANGED <<invIndexFile, lookupFile, binFile, idxFile, convI, initialized,
                   barrelLookup, barrelIndices, wordToWordId, wordIdToLemmaId, added, out>>
    /\ UNCHANGED sideVars

\* the lookup table lemma-ID -> barrel-ID over the lemmas the barrels hold
LookupTable(bs) ==
    [l \in UNION {DOMAIN bs[b].postings : b \in DOMAIN bs} |->
        CHOOSE b \in DOMAIN bs : l \in DOMAIN bs[b].postings]

\* barrel_lookup.json is written
EmitLookup ==
    /\ pc = "lookup"
    /\ pc' = "convert"
    /\ lookupFile' = [exists |-> TRUE, map |-> LookupTable(jsonBarrels)]
    /\ UNCHANGED <<invIndexFile, jsonBarrels, binFile, idxFile, convI, initialized,
                   barrelLookup, barrelIndices, wordToWordId, wordIdToLemmaId, added, out>>
    /\ UNCHANGED sideVars

\* one iteration of the loop of convertAllBarrels
ConvertBarrel ==
    /\ pc = "convert"
    /\ convI < numBarrels
    /\ LET files == convertBarrel(jsonBarrels[convI])
       IN /\ binFile' = [binFile EXCEPT ![convI] = files.bin]
          /\ idxFile' = [idxFile EXCEPT ![convI] = files.idx]
    /\ convI' = convI + 1
    /\ pc' = IF convI + 1 = numBarrels THEN "serve" ELSE "convert"
    /\ UNCHANGED <<invIndexFile, jsonBarrels, lookupFile, initialized, barrelLookup,
                   barrelIndices, wordToWordId, wordIdToLemmaId, added, out>>
    /\ UNCHANGED sideVars

\* initializeCache: lexicon, barrel lookup, the offset maps of barrels 0..9 and
\* new_docs, the autocomplete index
InitializeCache ==
    /\ pc = "serve"
    /\ ~initialized
    /\ lookupFile.exists
    /\ lexiconFiles.bin.exists \/ lexiconFiles.json.exists
    /\ wordToWordId' = LoadLexicon(lexiconFiles).w2id
    /\ wordIdToLemmaId' = LoadLexicon(lexiconFiles).id2l
    /\ barrelLookup' = lookupFile.map
    /\ barrelIndices' = LoadIndices(idxFile)
    /\ initialized' = TRUE
    /\ \E loaded \in loadAutocomplete(autoFiles) :
          /\ autocompleteIndex' = loaded.index
          /\ autocompleteLoaded' = loaded.loaded
    /\ UNCHANGED <<pc, invIndexFile, jsonBarrels, lookupFile, binFile, idxFile, convI,
                   added, out, embeddings, autoFiles, toolExit, lexiconFiles, dataset,
                   forwardIndexFile, app, wordToEmbIdx>>

RECURSIVE Resolve(_, _, _)
\* the lemma term frequencies of an upload, the lexicon extended by its unknown words
Resolve(lex, words, tfs) ==
    IF words = <<>> THEN [w2id |-> lex.w2id, id2l |-> lex.id2l, tfs |-> tfs]
    ELSE LET w == Head(words).word
             known == w \in DOMAIN lex.w2id
             wordId == IF known THEN lex.w2id[w] ELSE Cardinality(DOMAIN lex.w2id)
             lemmaId == IF known THEN lex.id2l[wordId] ELSE NextLemmaId(lex.id2l)
         IN Resolve([w2id |-> Put(lex.w2id, w, wordId), id2l |-> Put(lex.id2l, wordId, lemmaId)],
                    Tail(words),
                    Append(tfs, [lemmaId |-> lemmaId, tf |-> Head(words).tf]))

\* add-document: extend the lexicon, append the blocks and idx entries of the
\* document to the delta barrel, update the in-memory delta offset map
AddDocument(upload) ==
    /\ pc = "serve"
    /\ initialized
    /\ Cardinality({k \in 1..Len(added) : ~added[k].prior}) < MaxAdds
    /\ LET docId == UploadId(Len(added) + 1)
           r == Resolve([w2id |-> wordToWordId, id2l |-> wordIdToLemmaId], upload, <<>>)
           files == AppendAll([bin |-> binFile[NEW_DOCS], idx |-> idxFile[NEW_DOCS]],
                              docId, r.tfs)
       IN /\ wordToWordId' = r.w2id
          /\ wordIdToLemmaId' = r.id2l
          /\ binFile' = [binFile EXCEPT ![NEW_DOCS] = files.bin]
          /\ idxFile' = [idxFile EXCEPT ![NEW_DOCS] = files.idx]
          /\ barrelIndices' = DeltaMap(barrelIndices, files.idx)
          /\ added' = Append(added, [doc_id |-> docId, prior |-> FALSE, tfs |-> r.tfs])
    /\ out' = NoOut
    /\ UNCHANGED <<pc, invIndexFile, jsonBarrels, lookupFile, convI, initialized, barrelLookup>>
    /\ UNCHANGED sideVars

\* one posting lookup of the serving process.  A lookup or a search leaves the
\* index as it is, so each state of the index is queried once, with no output
\* of an earlier query at hand
Lookup(lemmaId) ==
    /\ pc = "serve"
    /\ initialized
    /\ out = NoOut
    /\ \E r \in {FindPostingsBinary(lemmaId)} :
          out' = [NoOut EXCEPT !.op = "lookup", !.lemmaId = lemmaId, !.found = r.found,
                               !.df = r.df, !.postings = r.postings]
    /\ UNCHANGED <<pc, invIndexFile, jsonBarrels, lookupFile, binFile, idxFile, convI,
                   initialized, barrelLookup, barrelIndices, wordToWordId,
                   wordIdToLemmaId, added>>
    /\ UNCHANGED sideVars

Lemmas == 0..4

\* semanticSearch and the top-K listing of main
SemanticSearch(queryWords, mode) ==
    /\ pc = "serve"
    /\ initialized
    /\ out = NoOut
    /\ \E unsorted \in {SemanticResults(queryWords, mode)} :
       \E results \in SortOutcomes(unsorted, "semantic") :
         out' = [NoOut EXCEPT !.op = "semantic", !.query = queryWords, !.mode = mode,
                              !.results = results, !.shown = TopK(results)]
    /\ UNCHANGED <<pc, invIndexFile, jsonBarrels, lookupFile, binFile, idxFile, convI,
                   initialized, barrelLookup, barrelIndices, wordToWordId,
                   wordIdToLemmaId, added>>
    /\ UNCHANGED sideVars

\* the query of the optimized search executable and its top-K listing
OptimizedSearch(queryWords, mode) ==
    /\ pc = "serve"
    /\ initialized
    /\ out = NoOut
    /\ \E unsorted \in {IF Len(queryWords) = 1 THEN SingleWordResults(queryWords[1])
                         ELSE MultiWordResults(queryWords, mode)} :
       \E results \in SortOutcomes(unsorted, IF Len(queryWords) = 1 THEN "single" ELSE "multi") :
            out' = [NoOut EXCEPT !.op = "optimized", !.query = queryWords, !.mode = mode,
                                 !.results = results, !.shown = TopK(results)]
    /\ UNCHANGED <<pc, invIndexFile, jsonBarrels, lookupFile, binFile, idxFile, convI,
                   initialized, barrelLookup, barrelIndices, wordToWordId,
                   wordIdToLemmaId, added>>
    /\ UNCHANGED sideVars

\* the tokenized queries searched for
Queries == {<<"covid">>, <<"shot">>, <<NewWord>>, <<"covid", "vaccine">>,
            <<"covid", UnknownWord>>, <<"vaccines", "vaccine">>}

Modes == {"AND", "OR"}

Next ==
    \/ Partition
    \/ EmitLookup
    \/ ConvertBarrel
    \/ InitializeCache
    \/ \E upload \in Uploads : AddDocument(upload)
    \/ \E lemmaId \in Lemmas : Lookup(lemmaId)
    \/ \E queryWords \in Queries, mode \in Modes : SemanticSearch(queryWords, mode)
    \/ \E queryWords \in Queries, mode \in Modes : OptimizedSearch(queryWords, mode)

Spec == Init /\ [][Next]_vars

(***************************************************************************)
(* The scorer alone: calculateTFIDF applied to chosen (tf, df)             *)
(***************************************************************************)
\* no index has been built and no cache loaded
BuildIdle ==
    /\ invIndexFile = <<>>
    /\ jsonBarrels = [b \in 0..(numBarrels - 1) |-> EmptyBarrel]
    /\ lookupFile = [exists |-> FALSE, map |-> EmptyMap]
    /\ binFile = [b \in 0..NEW_DOCS |-> <<>>]
    /\ idxFile = [b \in 0..NEW_DOCS |-> NoIdx]
    /\ convI = 0
    /\ initialized = FALSE
    /\ barrelLookup = EmptyMap
    /\ barrelIndices = EmptyMap
    /\ wordToWordId = EmptyMap
    /\ wordIdToLemmaId = EmptyMap
    /\ added = <<>>

SideIdle ==
    /\ embeddings = UnitStore
    /\ autoFiles = NoAutoFiles
    /\ autocompleteIndex = EmptyMap
    /\ autocompleteLoaded = FALSE
    /\ toolExit = NoExit
    /\ FrontIdle

\* the term frequencies and document frequencies scored: below, at and
\* beyond TOTAL_DOCS
Tfs == {1, 2, 3, 5, 10, 50}
Dfs == {1, 10, 100, 1000, 10000, TOTAL_DOCS, 100000}

ScoreInit ==
    /\ pc = "score"
    /\ out = NoOut
    /\ BuildIdle
    /\ SideIdle

\* one call of calculateTFIDF; out.results keeps the calls made, two at most
Score(tf, df) ==
    /\ pc = "score"
    /\ Len(out.results) < 2
    /\ out' = [out EXCEPT !.op = "score",
                          !.results = Append(@, [tf |-> tf, df |-> df,
                                                 score |-> calculateTFIDF(tf, df)])]
    /\ UNCHANGED <<pc, invIndexFile, jsonBarrels, lookupFile, binFile, idxFile, convI,
                   initialized, barrelLookup, barrelIndices, wordToWordId,
                   wordIdToLemmaId, added>>
    /\ UNCHANGED sideVars

ScoreNext == \E tf \in Tfs, df \in Dfs : Score(tf, df)

ScoreSpec == ScoreInit /\ [][ScoreNext]_vars

(***************************************************************************)
(* Autocomplete alone: a built index, the cache load and prefix requests   *)
(***************************************************************************)
\* the files the build pipeline leaves for a corpus, nothing loaded yet
Built(corpus) ==
    LET bs == createFromInvertedIndex(InvertedIndexOf(corpus))
    IN /\ pc = "serve"
       /\ invIndexFile = InvertedIndexOf(corpus)
       /\ jsonBarrels = bs
       /\ lookupFile = [exists |-> TRUE, map |-> LookupTable(bs)]
       /\ binFile = [b \in 0..NEW_DOCS |->
                        IF b = NEW_DOCS THEN <<>> ELSE convertBarrel(bs[b]).bin]
       /\ idxFile = [b \in 0..NEW_DOCS |->
                        IF b = NEW_DOCS THEN NoIdx ELSE convertBarrel(bs[b]).idx]
       /\ convI = numBarrels
       /\ initialized = FALSE
       /\ barrelLookup = EmptyMap
       /\ barrelIndices = EmptyMap
       /\ wordToWordId = EmptyMap
       /\ wordIdToLemmaId = EmptyMap
       /\ added = <<>>
       /\ out = NoOut

\* the autocomplete files found at start-up: each present or not
AutoFileSets ==
    UNION {{[json |-> [exists |-> j, buckets |-> IF j THEN idx ELSE EmptyMap],
             trie |-> [exists |-> t, lines |-> IF t THEN TrieLines(vocabulary) ELSE <<>>],
             ngram |-> [exists |-> n, buckets |-> IF n THEN ng ELSE EmptyMap]] :
               j \in BOOLEAN, t \in BOOLEAN, n \in BOOLEAN,
               idx \in GeneratedIndexes(vocabulary),
               ng \in UNION {NgramIndexes(c) : c \in NgramCounts}} :
           vocabulary \in Vocabularies}

\* "", c, co, CO, cov, Cov, covi, cove, coa, ca, cox, covaa, covbz,
\* "covid va", "covid vac", "covid vax"
Prefixes ==
    { <<>>, <<99>>, <<99, 111>>, <<67, 79>>, <<99, 111, 118>>, <<67, 111, 118>>,
      <<99, 111, 118, 105>>, <<99, 111, 118, 101>>, <<99, 111, 97>>, <<99, 97>>,
      <<99, 111, 120>>, <<99, 111, 118, 97, 97>>, <<99, 111, 118, 98, 122>>,
      <<99, 111, 118, 105, 100, 32, 118, 97>>,
      <<99, 111, 118, 105, 100, 32, 118, 97, 99>>,
      <<99, 111, 118, 105, 100, 32, 118, 97, 120>> }

AutoInit ==
    /\ Built(<<[id |-> DocId(1), tf |-> Profiles[3]]>>)
    /\ embeddings = UnitStore
    /\ autoFiles \in AutoFileSets
    /\ autocompleteIndex = EmptyMap
    /\ autocompleteLoaded = FALSE
    /\ toolExit = NoExit
    /\ FrontIdle

\* GET /autocomplete?prefix=...
Autocomplete(prefix) ==
    /\ pc = "serve"
    /\ initialized
    /\ out = NoOut
    /\ out' = [NoOut EXCEPT !.op = "autocomplete", !.query = prefix,
                            !.results = run_autocomplete(prefix)]
    /\ UNCHANGED <<pc, invIndexFile, jsonBarrels, lookupFile, binFile, idxFile, convI,
                   initialized, barrelLookup, barrelIndices, wordToWordId, wordIdToLemmaId,
                   added>>
    /\ UNCHANGED sideVars

AutoNext ==
    \/ InitializeCache
    \/ \E prefix \in Prefixes : Autocomplete(prefix)

AutoSpec == AutoInit /\ [][AutoNext]_vars

(***************************************************************************)
(* Bad data in a posting block of a built index                            *)
(***************************************************************************)
\* the block of lemma l on disk does not pass the checks of its own fields:
\* its lemma-ID field is not l, or its numDocs does not agree with the
\* length the .idx file gives, or a field is missing
Damaged(l) ==
    /\ l \in DOMAIN lookupFile.map
    /\ \E n \in 1..Len(idxFile[lookupFile.map[l]].entries) :
          LET e == idxFile[lookupFile.map[l]].entries[n]
              blk == ReadBlock(binFile[lookupFile.map[l]], e.offset)
          IN /\ e.lemmaId = l
             /\ \/ ~blk.valid
                \/ blk.lemmaId # l
                \/ e.length # 12 + (DOC_ID_SIZE + 4) * blk.numDocs

DamageKinds == {"lemmaId", "numDocs"}

\* one header field of the n-th block of barrel_b.bin is overwritten: the
\* lemma-ID by that of another lemma, or numDocs by a smaller count
Damage(b, n, kind) ==
    /\ pc = "serve"
    /\ out = NoOut
    /\ \A l \in DOMAIN lookupFile.map : ~Damaged(l)
    /\ idxFile[b].exists
    /\ n \in 1..Len(idxFile[b].entries)
    /\ LET e == idxFile[b].entries[n]
           k == FieldAt(binFile[b], e.offset)
       IN binFile' = [binFile EXCEPT ![b] =
                         IF kind = "lemmaId"
                         THEN [@ EXCEPT ![k] = IntField(e.lemmaId + 1)]
                         ELSE [@ EXCEPT ![k + 2] = IntField(@.i - 1)]]
    /\ UNCHANGED <<pc, invIndexFile, jsonBarrels, lookupFile, idxFile, convI, initialized,
                   barrelLookup, barrelIndices, wordToWordId, wordIdToLemmaId, added, out>>
    /\ UNCHANGED sideVars

CorruptInit ==
    /\ \E corpus \in SmallCorpora : Built(corpus)
    /\ SideIdle

CorruptNext ==
    \/ \E b \in 0..(numBarrels - 1), n \in 1..Cardinality(Lemmas), kind \in DamageKinds : Damage(b, n, kind)
    \/ InitializeCache
    \/ \E l \in Lemmas : Lookup(l)

CorruptSpec == CorruptInit /\ [][CorruptNext]_vars

(***************************************************************************)
(* The build tools as whole runs, each with the fault it meets, and the    *)
(* exit code of its main                                                   *)
(***************************************************************************)
Exit(tool, fault, code) == [tool |-> tool, fault |-> fault, code |-> code]

ToolInit ==
    /\ \E corpus \in SmallCorpora : invIndexFile = InvertedIndexOf(corpus)
    /\ pc = "build"
    /\ jsonBarrels = [b \in 0..(numBarrels - 1) |-> EmptyBarrel]
    /\ lookupFile = [exists |-> FALSE, map |-> EmptyMap]
    /\ binFile = [b \in 0..NEW_DOCS |-> <<>>]
    /\ idxFile = [b \in 0..NEW_DOCS |-> NoIdx]
    /\ convI = 0
    /\ initialized = FALSE
    /\ barrelLookup = EmptyMap
    /\ barrelIndices = EmptyMap
    /\ wordToWordId = EmptyMap
    /\ wordIdToLemmaId = EmptyMap
    /\ added = <<>>
    /\ out = NoOut
    /\ SideIdle

\* main of forwardIndex.cpp: loadConfig throws ("config"), initialize fails
\* ("lexicon"), saveToFile cannot open its output ("output")
RunForwardIndex(fault) ==
    /\ pc = "build"
    /\ fault \in {"none", "config", "lexicon", "output"}
    /\ toolExit' = Exit("forwardIndex", fault,
                        IF fault \in {"config", "lexicon"} THEN 1 ELSE 0)
    /\ UNCHANGED <<pc, invIndexFile, jsonBarrels, lookupFile, binFile, idxFile, convI,
                   initialized, barrelLookup, barrelIndices, wordToWordId, wordIdToLemmaId,
                   added, out, embeddings, autoFiles, autocompleteIndex, autocompleteLoaded,
                   lexiconFiles, dataset, forwardIndexFile, app, wordToEmbIdx>>

\* main of invertedIndex.cpp: loadConfig throws ("config"),
\* buildFromForwardIndex cannot open the forward index ("input") and returns
\* with an empty index, which saveToFile then writes; saveToFile cannot open
\* its output ("output") and returns
RunInvertedIndex(fault) ==
    /\ pc = "build"
    /\ fault \in {"none", "config", "input", "output"}
    /\ invIndexFile' = IF fault = "input" THEN <<>> ELSE invIndexFile
    /\ toolExit' = Exit("invertedIndex", fault, IF fault = "config" THEN 1 ELSE 0)
    /\ UNCHANGED <<pc, jsonBarrels, lookupFile, binFile, idxFile, convI,
                   initialized, barrelLookup, barrelIndices, wordToWordId, wordIdToLemmaId,
                   added, out, embeddings, autoFiles, autocompleteIndex, autocompleteLoaded,
                   lexiconFiles, dataset, forwardIndexFile, app, wordToEmbIdx>>

\* main of the barrel partitioner: loadConfig throws ("config"), the inverted
\* index does not exist ("missing"), it exists but cannot be opened ("input":
\* createFromInvertedIndex returns and the empty barrels are saved), a barrel
\* file cannot be created ("output": saveBarrels goes on), a stoi throws
RunPartitioner(fault) ==
    /\ pc = "build"
    /\ fault \in {"none", "config", "missing", "input", "output"}
    /\ LET parse == /\ fault \in {"none", "output"}
                    /\ \E i \in 1..Len(invIndexFile) : LineThrows(invIndexFile[i])
       IN /\ jsonBarrels' =
                IF parse \/ fault \in {"config", "missing", "output"} THEN jsonBarrels
                ELSE IF fault = "input" THEN [b \in 0..(numBarrels - 1) |-> EmptyBarrel]
                ELSE createFromInvertedIndex(invIndexFile)
          /\ toolExit' = IF parse THEN Exit("barrels", "parse", 1)
                         ELSE Exit("barrels", fault,
                                   IF fault \in {"config", "missing"} THEN 1 ELSE 0)
    /\ UNCHANGED <<pc, invIndexFile, lookupFile, binFile, idxFile, convI,
                   initialized, barrelLookup, barrelIndices, wordToWordId, wordIdToLemmaId,
                   added, out, embeddings, autoFiles, autocompleteIndex, autocompleteLoaded,
                   lexiconFiles, dataset, forwardIndexFile, app, wordToEmbIdx>>

\* main of the binary barrel converter: loadConfig throws ("config"), a JSON
\* barrel does not exist ("input": warning, skipped), it does not parse
\* ("parse": the exception reaches main), the .bin or .idx file cannot be
\* opened ("output": message, return); the fault is that of every barrel
RunConverter(fault) ==
    /\ pc = "build"
    /\ fault \in {"none", "config", "input", "parse", "output"}
    /\ binFile' = IF fault = "none"
                  THEN [b \in 0..NEW_DOCS |->
                          IF b = NEW_DOCS THEN binFile[b] ELSE convertBarrel(jsonBarrels[b]).bin]
                  ELSE binFile
    /\ idxFile' = IF fault = "none"
                  THEN [b \in 0..NEW_DOCS |->
                          IF b = NEW_DOCS THEN idxFile[b] ELSE convertBarrel(jsonBarrels[b]).idx]
                  ELSE idxFile
    /\ toolExit' = Exit("barrels_binary", fault, IF fault \in {"config", "parse"} THEN 1 ELSE 0)
    /\ UNCHANGED <<pc, invIndexFile, jsonBarrels, lookupFile, convI,
                   initialized, barrelLookup, barrelIndices, wordToWordId, wordIdToLemmaId,
                   added, out, embeddings, autoFiles, autocompleteIndex, autocompleteLoaded,
                   lexiconFiles, dataset, forwardIndexFile, app, wordToEmbIdx>>

Faults == {"none", "config", "lexicon", "missing", "input", "parse", "output"}

ToolNext ==
    \E fault \in Faults :
        \/ RunForwardIndex(fault)
        \/ RunInvertedIndex(fault)
        \/ RunPartitioner(fault)
        \/ RunConverter(fault)

ToolSpec == ToolInit /\ [][ToolNext]_vars

(***************************************************************************)
(* The partitioner alone, on one line of the inverted index                *)
(***************************************************************************)
\* document frequencies below, at and above the two thresholds
LineDfs == {1, 2, 999, 1000, 1001, 5000, 9999, 10000, 10001, 59000}
LineLemmas == 0..17

\* a line for the lemma with the given df field; the partitioner takes df
\* from the field, so the posting list is cut to its first posting
DfLine(lemma, df) ==
    <<Num(lemma), Ch(BAR), Num(df), Ch(BAR)>> \o FormatPostings(<<Posting(DocId(1), 1)>>)

BarrelInit ==
    /\ \E lemma \in LineLemmas, df \in LineDfs : invIndexFile = <<DfLine(lemma, df)>>
    /\ pc = "partition"
    /\ jsonBarrels = [b \in 0..(numBarrels - 1) |-> EmptyBarrel]
    /\ lookupFile = [exists |-> FALSE, map |-> EmptyMap]
    /\ binFile = [b \in 0..NEW_DOCS |-> <<>>]
    /\ idxFile = [b \in 0..NEW_DOCS |-> NoIdx]
    /\ convI = 0
    /\ initialized = FALSE
    /\ barrelLookup = EmptyMap
    /\ barrelIndices = EmptyMap
    /\ wordToWordId = EmptyMap
    /\ wordIdToLemmaId = EmptyMap
    /\ added = <<>>
    /\ out = NoOut
    /\ SideIdle

BarrelSpec == BarrelInit /\ [][Partition]_vars

(***************************************************************************)
(* Semantic search over a built index, with either embeddings file         *)
(***************************************************************************)
EmbQueries == {<<"shot">>, <<"jab">>, <<"vaccine">>, <<"shot", "vaccine">>,
               <<"vaccine", "shot">>, <<"covid", "shot">>}

EmbInit ==
    /\ \E corpus \in SmallCorpora : Built(corpus)
    /\ embeddings \in Stores
    /\ autoFiles = NoAutoFiles
    /\ autocompleteIndex = EmptyMap
    /\ autocompleteLoaded = FALSE
    /\ toolExit = NoExit
    /\ FrontIdle

EmbNext ==
    \/ InitializeCache
    \/ \E queryWords \in EmbQueries, mode \in Modes : SemanticSearch(queryWords, mode)

EmbSpec == EmbInit /\ [][EmbNext]_vars

(***************************************************************************)
(* The lexicon lookup of the two search executables, over lexicon.bin and  *)
(* lexicon.json                                                             *)
(***************************************************************************)
\* the search-side state no lookup touches
BackIdle ==
    /\ embeddings = UnitStore
    /\ autoFiles = NoAutoFiles
    /\ autocompleteIndex = EmptyMap
    /\ autocompleteLoaded = FALSE
    /\ toolExit = NoExit

\* the lemma IDs given to LexiconWords: some equal to the word-ID, some not
LexiconLemmaSets == { LexiconLemmas, <<0, 1, 2, 3, 4>>, <<1, 0, 0, 3, 2>>,
                      <<4, 4, 4, 4, 4>>, <<0, 0, 1, 1, 2>>, <<2, 3, 3, 4, 0>> }

\* one lexicon in its deployments: both files, lexicon.bin alone, lexicon.json alone
LexiconForms(lemmas) ==
    { [bin |-> LexiconBin(LexiconWords, lemmas), json |-> LexiconJson(LexiconWords, lemmas)],
      [bin |-> LexiconBin(LexiconWords, lemmas), json |-> NoLexiconJson],
      [bin |-> NoLexiconBin, json |-> LexiconJson(LexiconWords, lemmas)] }

LexInit ==
    /\ Built(<<[id |-> DocId(1), tf |-> Profiles[3]]>>)
    /\ BackIdle
    /\ \E lemmas \in LexiconLemmaSets : lexiconFiles \in LexiconForms(lemmas)
    /\ dataset = <<>>
    /\ forwardIndexFile = <<>>
    /\ app = NoApp
    /\ wordToEmbIdx = BuiltVocab

\* the lexical lookup both executables start a search with
LookupWord(word) ==
    /\ pc = "serve"
    /\ initialized
    /\ out = NoOut
    /\ out' = [NoOut EXCEPT !.op = "lemma", !.query = <<word>>,
                            !.results = <<getLemmaIdForWord(word), WordLemma(word)>>]
    /\ UNCHANGED <<pc, invIndexFile, jsonBarrels, lookupFile, binFile, idxFile, convI,
                   initialized, barrelLookup, barrelIndices, wordToWordId,
                   wordIdToLemmaId, added>>
    /\ UNCHANGED sideVars

LexNext ==
    \/ InitializeCache
    \/ \E word \in SeqToSet(LexiconWords) \cup {UnknownWord} : LookupWord(word)

LexSpec == LexInit /\ [][LexNext]_vars

(***************************************************************************)
(* The document-ID codec on IDs that fill the 20-byte field or exceed it   *)
(***************************************************************************)
\* a document-ID of n bytes that ends with the byte last
LongId(n, last) == [k \in 1..n |-> IF k = n THEN last ELSE 65]

LongIds == {LongId(n, 66) : n \in (DOC_ID_SIZE - 2)..(DOC_ID_SIZE + 1)}

\* one document with a long ID, or two whose IDs differ in the 20th byte only
CodecCorpora ==
    {<<[id |-> id, tf |-> Profiles[c]]>> : id \in LongIds, c \in 1..Len(Profiles)}
    \cup {<<[id |-> LongId(DOC_ID_SIZE, 66), tf |-> Profiles[c]],
            [id |-> LongId(DOC_ID_SIZE, 67), tf |-> Profiles[c]]>> : c \in 1..Len(Profiles)}

CodecInit ==
    /\ \E corpus \in CodecCorpora : invIndexFile = InvertedIndexOf(corpus)
    /\ pc = "partition"
    /\ jsonBarrels = [b \in 0..(numBarrels - 1) |-> EmptyBarrel]
    /\ lookupFile = [exists |-> FALSE, map |-> EmptyMap]
    /\ binFile = [b \in 0..NEW_DOCS |-> <<>>]
    /\ idxFile = [b \in 0..NEW_DOCS |-> NoIdx]
    /\ convI = 0
    /\ initialized = FALSE
    /\ barrelLookup = EmptyMap
    /\ barrelIndices = EmptyMap
    /\ wordToWordId = EmptyMap
    /\ wordIdToLemmaId = EmptyMap
    /\ added = <<>>
    /\ out = NoOut
    /\ SideIdle

CodecNext ==
    \/ Partition
    \/ EmitLookup
    \/ ConvertBarrel
    \/ InitializeCache
    \/ \E lemmaId \in Lemmas : Lookup(lemmaId)

CodecSpec == CodecInit /\ [][CodecNext]_vars

(***************************************************************************)
(* Forward index builder (forwardIndex.cpp) and inverted index builder     *)
(* (invertedIndex.cpp)                                                      *)
(***************************************************************************)
BODY_LIMIT == 5000
DOT == 46

\* the results of the <cctype> tests on a byte above 127, which the callers
\* pass as a negative char: whatever the C library gives
CtypeOutcomes == [punct : BOOLEAN, alnum : BOOLEAN]

\* ::ispunct and std::isalnum in the "C" locale
ispunct(c, ub) ==
    IF c > 127 THEN ub.punct
    ELSE c \in (33..47) \cup (58..64) \cup (91..96) \cup (123..126)

isalnum(c, ub) ==
    IF c > 127 THEN ub.alnum
    ELSE c \in (48..57) \cup (65..90) \cup (97..122)

\* textToLemmaIDs on one word: lower-cased, then the punctuation erased
IndexToken(word, ub) == SelectSeq(toLower(word), LAMBDA c : ~ispunct(c, ub))

\* tokenize on one word: the alphanumeric bytes, lower-cased
QueryToken(word, ub) == toLower(SelectSeq(word, LAMBDA c : isalnum(c, ub)))

\* Lexicon::getLemmaID: -1 for an unknown word, the word-ID without a mapping
getLemmaID(lex, word) ==
    IF \E w \in DOMAIN lex.w2id : Spell[w] = word
    THEN LET wordID == lex.w2id[CHOOSE w \in DOMAIN lex.w2id : Spell[w] = word]
         IN IF wordID \in DOMAIN lex.id2l THEN lex.id2l[wordID] ELSE wordID
    ELSE -1

\* Lexicon::textToLemmaIDs on the words that ss >> word reads from a text
textToLemmaIDs(lex, words, ub) ==
    LET Known(word) == /\ IndexToken(word, ub) # <<>>
                       /\ getLemmaID(lex, IndexToken(word, ub)) # -1
        kept == SelectSeq(words, Known)
    IN [k \in 1..Len(kept) |-> getLemmaID(lex, IndexToken(kept[k], ub))]

\* filename.substr(0, filename.find('.'))
PmcId(filename) ==
    LET dot == Find(Chars(filename), DOT, 1)
    IN IF dot = 0 THEN filename ELSE SubSeq(filename, 1, dot - 1)

\* processDocument up to the test on total_terms
processDocument(lex, file, ub) ==
    LET title == textToLemmaIDs(lex, file.title, ub)
        abstract == textToLemmaIDs(lex, file.abstract, ub)
        body == textToLemmaIDs(lex, file.body, ub)
    IN [doc_id |-> PmcId(file.name), title_lemmas |-> title,
        abstract_lemmas |-> abstract, body_lemmas |-> body,
        total_terms |-> Len(title) + Len(abstract) + Len(body)]

RECURSIVE processDirectory(_, _, _, _)
\* processDirectory: forwardIndex[pmcId] = doc for every file with some term
processDirectory(forwardIndex, lex, files, ub) ==
    IF files = <<>> THEN forwardIndex
    ELSE LET doc == processDocument(lex, Head(files), ub)
         IN processDirectory(IF doc.total_terms > 0
                             THEN Put(forwardIndex, doc.doc_id, doc) ELSE forwardIndex,
                             lex, Tail(files), ub)

\* lemma IDs separated by commas
FormatLemmas(lemmas) ==
    [k \in 1..(2 * Len(lemmas) - (IF lemmas = <<>> THEN 0 ELSE 1)) |->
        IF k % 2 = 1 THEN Num(lemmas[(k + 1) \div 2]) ELSE Ch(COMMA)]

\* faulty variant of FormatRecord: the whole body is written
FormatRecordWhole(doc) ==
    Chars(doc.doc_id) \o <<Ch(BAR), Num(doc.total_terms), Ch(BAR)>>
    \o FormatLemmas(doc.title_lemmas) \o <<Ch(BAR)>>
    \o FormatLemmas(doc.abstract_lemmas) \o <<Ch(BAR)>>
    \o FormatLemmas(doc.body_lemmas)

\* one line of saveToFile: doc_id|total_terms|title|abstract|body[:5000]
FormatRecord(doc) ==
    Chars(doc.doc_id) \o <<Ch(BAR), Num(doc.total_terms), Ch(BAR)>>
    \o FormatLemmas(doc.title_lemmas) \o <<Ch(BAR)>>
    \o FormatLemmas(doc.abstract_lemmas) \o <<Ch(BAR)>>
    \o FormatLemmas(SubSeq(doc.body_lemmas, 1, Min(Len(doc.body_lemmas), BODY_LIMIT)))

\* the orders in which an unordered_map can be iterated
Orders(keys) ==
    {o \in [1..Cardinality(keys) -> keys] : \A i, j \in DOMAIN o : i # j => o[i] # o[j]}

\* the five fields getline(ss, _, '|') reads from a forward index line
RecordFields(line) ==
    LET f == SplitOn(line, BAR)
        F(j) == IF j <= Len(f) THEN f[j] ELSE <<>>
    IN [doc_id |-> F(1), total_terms_str |-> F(2), title_lemmas |-> F(3),
        abstract_lemmas |-> F(4), body_lemmas |-> F(5)]

\* parseLemmas: stoi of every non-empty field between commas, the fields on
\* which stoi throws skipped
parseLemmas(lemmaStr) ==
    LET Starts(k) == /\ lemmaStr[k] # Ch(COMMA)
                     /\ k = 1 \/ lemmaStr[k - 1] = Ch(COMMA)
                     /\ lemmaStr[k].t = "num"
        at == SelectSeq([k \in 1..Len(lemmaStr) |-> k], Starts)
    IN [j \in 1..Len(at) |-> lemmaStr[at[j]].v]

\* the lemmas of a line: title, abstract and body together
AllLemmas(line) ==
    LET f == RecordFields(line)
    IN parseLemmas(f.title_lemmas) \o parseLemmas(f.abstract_lemmas)
       \o parseLemmas(f.body_lemmas)

\* faulty variant of TermFreqs: every lemma counted once
TermFreqsOnce(allLemmas) == [lemma \in {allLemmas[k] : k \in 1..Len(allLemmas)} |-> 1]

\* termFreqs[lemma]++ over the lemmas of a document
TermFreqs(allLemmas) ==
    [lemma \in {allLemmas[k] : k \in 1..Len(allLemmas)} |->
        Cardinality({k \in 1..Len(allLemmas) : allLemmas[k] = lemma})]

RECURSIVE buildFromForwardIndex(_, _)
\* buildFromForwardIndex: index[lemma].push_back(Posting(doc_id, freq)), line by line
buildFromForwardIndex(index, lines) ==
    IF lines = <<>> THEN index
    ELSE LET doc_id == Bytes(RecordFields(Head(lines)).doc_id)
             termFreqs == TermFreqs(AllLemmas(Head(lines)))
         IN buildFromForwardIndex(
                [lemma \in (DOMAIN index) \cup (DOMAIN termFreqs) |->
                    (IF lemma \in DOMAIN index THEN index[lemma] ELSE <<>>)
                    \o (IF lemma \in DOMAIN termFreqs
                        THEN <<Posting(doc_id, termFreqs[lemma])>> ELSE <<>>)],
                Tail(lines))

\* a big document: more body lemmas than saveToFile writes
BigBody == [k \in 1..(BODY_LIMIT + 1) |-> Spell.covid]

\* PMC files: names, and title, abstract and body as words
PmcFiles ==
    { [name |-> <<65, 46, 106>>, title |-> <<<<67, 111, 118, 105, 100, 44>>>>,
       abstract |-> <<>>, body |-> <<Spell.vaccine, <<67, 79, 86, 73, 68>>>>],
      [name |-> <<66, 46, 106>>, title |-> <<Spell.shot>>,
       abstract |-> <<Spell.jab, <<115, 104, 111, 116, 46>>>>, body |-> <<<<120, 121>>>>],
      [name |-> <<65, 46, 120, 46, 106>>, title |-> <<Spell.jab>>,
       abstract |-> <<>>, body |-> <<>>],
      [name |-> <<67, 46, 106>>, title |-> <<Spell.vaccine>>,
       abstract |-> <<>>, body |-> BigBody],
      [name |-> <<69, 46, 106>>, title |-> <<<<120, 121>>>>,
       abstract |-> <<>>, body |-> <<<<46>>>>],
      [name |-> <<71, 46, 106>>, title |-> <<Spell.vaccines, Spell.vaccine>>,
       abstract |-> <<Spell.vaccine>>, body |-> <<Spell.covid>>] }

\* the directory as it is iterated: one file or two
Datasets ==
    {<<f>> : f \in PmcFiles}
    \cup {fg \in {<<f, g>> : f \in PmcFiles, g \in PmcFiles} : fg[1] # fg[2]}

IndexInit ==
    /\ BuildIdle
    /\ pc = "forward"
    /\ out = NoOut
    /\ BackIdle
    /\ lexiconFiles = BuiltLexicon
    /\ dataset \in Datasets
    /\ forwardIndexFile = <<>>
    /\ app = NoApp
    /\ wordToEmbIdx = BuiltVocab

\* main of forwardIndex.cpp: processDirectory, then saveToFile
BuildForward ==
    /\ pc = "forward"
    /\ \E ub \in CtypeOutcomes :
         \E forwardIndex \in {processDirectory(EmptyMap, loadJsonLexicon(lexiconFiles.json),
                                               dataset, ub)} :
           \E order \in Orders(DOMAIN forwardIndex) :
              forwardIndexFile' = [k \in 1..Len(order) |-> FormatRecord(forwardIndex[order[k]])]
    /\ pc' = "invert"
    /\ UNCHANGED <<invIndexFile, jsonBarrels, lookupFile, binFile, idxFile, convI,
                   initialized, barrelLookup, barrelIndices, wordToWordId,
                   wordIdToLemmaId, added, out, embeddings, autoFiles, autocompleteIndex,
                   autocompleteLoaded, toolExit, lexiconFiles, dataset, app, wordToEmbIdx>>

\* main of invertedIndex.cpp: buildFromForwardIndex, then saveToFile
BuildInverted ==
    /\ pc = "invert"
    /\ \E index \in {buildFromForwardIndex(EmptyMap, forwardIndexFile)} :
         \E order \in Orders(DOMAIN index) :
            invIndexFile' = [k \in 1..Len(order) |-> FormatLine(order[k], index[order[k]])]
    /\ pc' = "partition"
    /\ UNCHANGED <<jsonBarrels, lookupFile, binFile, idxFile, convI,
                   initialized, barrelLookup, barrelIndices, wordToWordId,
                   wordIdToLemmaId, added, out>>
    /\ UNCHANGED sideVars

IndexNext ==
    \/ BuildForward
    \/ BuildInverted

IndexSpec == IndexInit /\ [][IndexNext]_vars

(***************************************************************************)
(* findSimilarWords alone, over the iteration orders of wordToEmbIdx       *)
(***************************************************************************)
SimInit ==
    /\ Built(<<[id |-> DocId(1), tf |-> Profiles[3]]>>)
    /\ embeddings \in Stores
    /\ autoFiles = NoAutoFiles
    /\ autocompleteIndex = EmptyMap
    /\ autocompleteLoaded = FALSE
    /\ toolExit = NoExit
    /\ lexiconFiles = BuiltLexicon
    /\ dataset = <<>>
    /\ forwardIndexFile = <<>>
    /\ app = NoApp
    /\ \E order \in Orders(EmbeddingWords) : wordToEmbIdx = Vocab(order)

\* findSimilarWords(word, topK) as expandQuery calls it, for any topK
FindSimilar(word, topK) ==
    /\ pc = "serve"
    /\ initialized
    /\ out = NoOut
    /\ out' = [NoOut EXCEPT !.op = "similar", !.query = <<word>>, !.shown = topK,
                            !.results = findSimilarWords(word, topK)]
    /\ UNCHANGED <<pc, invIndexFile, jsonBarrels, lookupFile, binFile, idxFile, convI,
                   initialized, barrelLookup, barrelIndices, wordToWordId,
                   wordIdToLemmaId, added>>
    /\ UNCHANGED sideVars

SimNext ==
    \/ InitializeCache
    \/ \E word \in EmbeddingWords, topK \in 1..TOP_SIMILAR_WORDS : FindSimilar(word, topK)

SimSpec == SimInit /\ [][SimNext]_vars

(***************************************************************************)
(* The frontend (App.jsx): query box, debounced autocomplete, suggestions  *)
(***************************************************************************)
CACHE_LIMIT == 100
MIN_PREFIX == 2
MaxQueries == 103    \* distinct queries typed to fill the autocomplete cache

\* everything but the frontend
backVars == <<pc, invIndexFile, jsonBarrels, lookupFile, binFile, idxFile, convI,
              initialized, barrelLookup, barrelIndices, wordToWordId, wordIdToLemmaId,
              added, out, embeddings, autoFiles, autocompleteIndex, autocompleteLoaded,
              toolExit, lexiconFiles, dataset, forwardIndexFile, wordToEmbIdx>>

NoTimer == [set |-> FALSE, query |-> <<>>]

\* the component as mounted; version 1 is the effect with cancellation and
\* cache, version 2 the effect without them
NewApp(version) ==
    [version |-> version, query |-> <<>>, suggestions |-> <<>>,
     showSuggestions |-> FALSE, selectedIndex |-> -1,
     autocompleteCache |-> <<>>, timer |-> NoTimer, inflight |-> {}, cleanup |-> FALSE,
     appliedFor |-> <<>>, appliedAt |-> <<>>, threw |-> FALSE]

\* what GET /autocomplete answers for a prefix
Suggest(prefix) ==
    LET p == toLower(prefix)
        covid == [word |-> Spell.covid]
        cold == [word |-> <<99, 111, 108, 100>>]
    IN IF p = <<99, 111>> THEN <<covid, cold>>
       ELSE IF p = <<99, 111, 118>> \/ p = Spell.covid THEN <<covid>>
       ELSE IF p = cold.word THEN <<cold>>
       ELSE <<>>

\* autocompleteCache.current.has(cacheKey)
CacheHas(cache, key) == \E k \in 1..Len(cache) : cache[k].key = key

CacheGet(cache, key) == cache[CHOOSE k \in 1..Len(cache) : cache[k].key = key].value

\* if (size > 100) delete(first key); then set(cacheKey, suggestions)
CacheSet(cache, key, value) ==
    LET kept == IF Len(cache) > CACHE_LIMIT THEN Tail(cache) ELSE cache
    IN IF CacheHas(kept, key)
       THEN [k \in 1..Len(kept) |-> IF kept[k].key = key THEN [key |-> key, value |-> value]
                                                          ELSE kept[k]]
       ELSE Append(kept, [key |-> key, value |-> value])

\* the cleanup the last effect returned: clearTimeout, and abort in version 1
Cleanup(a) ==
    IF ~a.cleanup THEN a
    ELSE [a EXCEPT !.timer = NoTimer, !.inflight = IF a.version = 1 THEN {} ELSE @]

\* the autocomplete effect, run when query has changed
Effect(a) ==
    LET b == Cleanup(a)
    IN IF Len(b.query) < MIN_PREFIX
       THEN [b EXCEPT !.suggestions = <<>>, !.showSuggestions = FALSE, !.cleanup = FALSE]
       ELSE IF b.version = 1 /\ CacheHas(b.autocompleteCache, toLower(b.query))
       THEN [b EXCEPT !.suggestions = CacheGet(b.autocompleteCache, toLower(b.query)),
                      !.showSuggestions = TRUE, !.cleanup = FALSE]
       ELSE [b EXCEPT !.timer = [set |-> TRUE, query |-> b.query], !.cleanup = TRUE]

\* q.trim() is empty
Blank(q) == \A k \in 1..Len(q) : q[k] = SPACE

\* handleSearch up to its fetch
handleSearch(a, q) ==
    IF Blank(q) THEN a ELSE [a EXCEPT !.showSuggestions = FALSE, !.suggestions = <<>>]

\* setQuery(word); setShowSuggestions(false); handleSearch(word); then the effect
Choose(a, word) ==
    LET b == handleSearch([a EXCEPT !.query = word, !.showSuggestions = FALSE], word)
    IN IF word # a.query THEN Effect(b) ELSE b

FrontStep(a) ==
    /\ app' = a
    /\ UNCHANGED backVars

\* onChange of the input
Edit(q) ==
    /\ q # app.query
    /\ FrontStep(Effect([app EXCEPT !.query = q, !.selectedIndex = -1]))

\* the debounce timer fires: the request of the effect's query goes out
TimerFires ==
    /\ app.timer.set
    /\ FrontStep([app EXCEPT !.timer = NoTimer,
                             !.inflight = IF app.version = 1 THEN {app.timer.query}
                                          ELSE @ \cup {app.timer.query}])

\* a request is answered: res.ok or not
Respond(q, ok) ==
    /\ q \in app.inflight
    /\ FrontStep(IF ok
                 THEN [app EXCEPT !.inflight = @ \ {q},
                                  !.autocompleteCache =
                                      IF app.version = 1
                                      THEN CacheSet(@, toLower(q), Suggest(q)) ELSE @,
                                  !.suggestions = Suggest(q),
                                  !.showSuggestions = TRUE,
                                  !.appliedFor = q,
                                  !.appliedAt = app.query]
                 ELSE [app EXCEPT !.inflight = @ \ {q}])

\* handleKeyDown
KeyDown(key) ==
    /\ key \in {"ArrowDown", "ArrowUp", "Enter", "Escape"}
    /\ IF ~app.showSuggestions \/ app.suggestions = <<>>
       THEN /\ key = "Enter"
            /\ FrontStep(handleSearch(app, app.query))
       ELSE FrontStep(
              IF key = "ArrowDown"
              THEN [app EXCEPT !.selectedIndex = Min(@ + 1, Len(app.suggestions) - 1)]
              ELSE IF key = "ArrowUp"
              THEN [app EXCEPT !.selectedIndex = IF @ - 1 > -1 THEN @ - 1 ELSE -1]
              ELSE IF key = "Escape"
              THEN [app EXCEPT !.showSuggestions = FALSE, !.selectedIndex = -1]
              ELSE IF app.selectedIndex >= 0
              THEN IF app.selectedIndex + 1 > Len(app.suggestions)
                   THEN [app EXCEPT !.threw = TRUE]
                   ELSE Choose(app, app.suggestions[app.selectedIndex + 1].word)
              ELSE handleSearch(app, app.query))

\* onMouseEnter of item i of the list shown
MouseEnter(i) ==
    /\ app.showSuggestions
    /\ i \in 0..(Len(app.suggestions) - 1)
    /\ FrontStep([app EXCEPT !.selectedIndex = i])

\* onClick of item i of the list shown: handleSuggestionClick
SuggestionClick(i) ==
    /\ app.showSuggestions
    /\ i \in 0..(Len(app.suggestions) - 1)
    /\ FrontStep(Choose(app, app.suggestions[i + 1].word))

\* onFocus of the input
Focus ==
    /\ Len(app.query) >= MIN_PREFIX
    /\ app.suggestions # <<>>
    /\ ~app.showSuggestions
    /\ FrontStep([app EXCEPT !.showSuggestions = TRUE])

\* mousedown outside the input and the list
ClickOutside ==
    /\ app.showSuggestions
    /\ FrontStep([app EXCEPT !.showSuggestions = FALSE])

\* the texts typed: "c", "co", "cov"
TypedQueries == {<<99>>, <<99, 111>>, <<99, 111, 118>>}

MaxSuggestions == 2   \* the longest list of suggestions answered

FrontInit ==
    /\ Built(<<[id |-> DocId(1), tf |-> Profiles[3]]>>)
    /\ BackIdle
    /\ lexiconFiles = BuiltLexicon
    /\ dataset = <<>>
    /\ forwardIndexFile = <<>>
    /\ wordToEmbIdx = BuiltVocab
    /\ app \in {NewApp(1), NewApp(2)}

FrontNext ==
    \/ \E q \in TypedQueries : Edit(q)
    \/ TimerFires
    \/ \E q \in app.inflight, ok \in BOOLEAN : Respond(q, ok)
    \/ \E key \in {"ArrowDown", "ArrowUp", "Enter", "Escape"} : KeyDown(key)
    \/ \E i \in 0..(MaxSuggestions - 1) : MouseEnter(i)
    \/ \E i \in 0..(MaxSuggestions - 1) : SuggestionClick(i)
    \/ Focus
    \/ ClickOutside

FrontSpec == FrontInit /\ [][FrontNext]_vars

\* the n-th of the distinct two-letter queries
NthQuery(n) == <<97 + (n \div 26), 97 + (n % 26)>>

QueryNumber(q) == (q[1] - 97) * 26 + (q[2] - 97)

\* version 1 with an empty cache
CacheInit ==
    /\ Built(<<[id |-> DocId(1), tf |-> Profiles[3]]>>)
    /\ BackIdle
    /\ lexiconFiles = BuiltLexicon
    /\ dataset = <<>>
    /\ forwardIndexFile = <<>>
    /\ wordToEmbIdx = BuiltVocab
    /\ app = NewApp(1)

\* a user who types one new query after the other and waits for the answers
CacheNext ==
    \/ \E q \in {IF app.query = <<>> THEN NthQuery(0)
                 ELSE NthQuery(QueryNumber(app.query) + 1)} :
          /\ app.inflight = {} /\ ~app.timer.set
          /\ QueryNumber(q) < MaxQueries
          /\ Edit(q)
    \/ TimerFires
    \/ \E q \in app.inflight : Respond(q, TRUE)

CacheSpec == CacheInit /\ [][CacheNext]_vars

(***************************************************************************)
(* Normalization of one word at index time and at query time               *)
(***************************************************************************)
MaxWordLen == 3

\* 'A', 'a', '1', '.', a control byte and a byte of a multi-byte character
WordBytes == {65, 97, 49, 46, 7, 233}

Words == UNION {[1..n -> WordBytes] : n \in 1..MaxWordLen}

NormInit ==
    /\ Built(<<[id |-> DocId(1), tf |-> Profiles[3]]>>)
    /\ SideIdle

\* one whitespace-free word through textToLemmaIDs and through tokenize
Normalize(word, ub) ==
    /\ out = NoOut
    /\ out' = [NoOut EXCEPT !.op = "tokens", !.query = word,
                            !.results = <<IndexToken(word, ub), QueryToken(word, ub)>>]
    /\ UNCHANGED <<pc, invIndexFile, jsonBarrels, lookupFile, binFile, idxFile, convI,
                   initialized, barrelLookup, barrelIndices, wordToWordId,
                   wordIdToLemmaId, added>>
    /\ UNCHANGED sideVars

NormNext == \E word \in Words, ub \in CtypeOutcomes : Normalize(word, ub)

NormSpec == NormInit /\ [][NormNext]_vars

(***************************************************************************)
(* Properties                                                              *)
(***************************************************************************)
\* the added documents that hold a lemma
AddsOf(l) ==
    {k \in 1..Len(added) : \E j \in 1..Len(added[k].tfs) : added[k].tfs[j].lemmaId = l}

\* the posting of the delta block the offset map designates for a lemma: the
\* block of the last added document that holds it
DeltaPosting(l) ==
    LET k == CHOOSE x \in AddsOf(l) : \A y \in AddsOf(l) : y <= x
        j == CHOOSE x \in 1..Len(added[k].tfs) : added[k].tfs[x].lemmaId = l
    IN Posting(added[k].doc_id, added[k].tfs[j].tf)

\* what the partitioner put in the primary barrel of a lemma
PrimaryOf(l) == jsonBarrels[lookupFile.map[l]].postings[l]

\* the barrels the converter has written
Converted == {b \in 0..(numBarrels - 1) : b < convI}

\* the lemmas that have a line in the inverted index
IndexLemmas == {Stoi(LineFields(invIndexFile[i]).lemmaIdStr) : i \in 1..Len(invIndexFile)}

BarrelsHolding(l) == {b \in DOMAIN jsonBarrels : l \in DOMAIN jsonBarrels[b].postings}

\* C1: after add-document(d) has returned, a search for a lemma that occurs
\* only in d (a brand-new lemma, present only in the delta barrel) lists d
\* among the results
C1_NewLemmaListed ==
    \A k \in 1..Len(added) :
        (/\ out.op = "semantic"
         /\ out.query = <<NewWord>>
         /\ NewWord \in DOMAIN wordToWordId
         /\ AddsOf(wordIdToLemmaId[wordToWordId[NewWord]]) = {k})
        => added[k].doc_id \in DocIds(out.shown)

C3_DfIsLength ==
    (out.op = "lookup" /\ out.lemmaId \in DOMAIN barrelLookup)
    => out.found /\ out.df >= 1 /\ out.df = Len(out.postings)

\* a lookup whose result holds a posting the delta merge added
C3_Witness ==
    /\ out.op = "lookup"
    /\ out.found
    /\ \E k \in 1..Len(added) :
         ~added[k].prior /\ added[k].doc_id \in DocIdsOf(out.postings)

\* the lookup of a lemma in the pair written for barrel b alone
ReadBack(b, l) ==
    FindPostingsIn(l, [x \in {l} |-> b],
                   [x \in {b} |-> LoadEntries(EmptyMap, idxFile[b].entries,
                                              idxFile[b].numEntries)],
                   binFile)

\* C4: a barrel written by the converter and read back lemma by lemma through
\* the serving lookup gives the original postings (document-IDs without their
\* null padding, term frequencies) and the original df
C4_RoundTrip ==
    \A b \in Converted : \A l \in DOMAIN jsonBarrels[b].postings :
        \E r \in {ReadBack(b, l)} :
            /\ r.found
            /\ r.postings = jsonBarrels[b].postings[l].docs
            /\ r.df = jsonBarrels[b].postings[l].df

\* every barrel is converted and one of them holds a document-ID of 19 bytes
C4_Witness ==
    /\ pc = "serve"
    /\ \E b \in Converted : \E l \in DOMAIN jsonBarrels[b].postings :
         \E k \in 1..Len(jsonBarrels[b].postings[l].docs) :
            Len(jsonBarrels[b].postings[l].docs[k].doc_id) = DOC_ID_SIZE - 1

C6_PartitionAndLookup ==
    pc = "lookup"
    => /\ \A l \in IndexLemmas :
            Cardinality(BarrelsHolding(l)) = 1 /\ BarrelsHolding(l) \subseteq 0..(numBarrels - 1)
       /\ lookupFile.exists
       /\ \A l \in IndexLemmas :
            l \in DOMAIN lookupFile.map /\ lookupFile.map[l] \in BarrelsHolding(l)

\* the part of C6 about the barrels alone
C6_OneBarrel ==
    pc \in {"lookup", "convert", "serve"}
    => \A l \in IndexLemmas :
          Cardinality(BarrelsHolding(l)) = 1 /\ BarrelsHolding(l) \subseteq 0..(numBarrels - 1)

\* the documents the lookup of a lemma returns
HoldersOf(l) ==
    UNION {IF r.found THEN DocIdsOf(r.postings) ELSE {} : r \in {FindPostingsBinary(l)}}

\* the lemmas of the original query terms that have one, term by term
TermLemmas(queryWords) ==
    LET known == SelectSeq(queryWords, LAMBDA w : getLemmaIdForWord(w).found)
    IN [i \in 1..Len(known) |-> getLemmaIdForWord(known[i]).lemmaId]

\* the number of original terms of the query a document matches
MatchedOriginal(d, lemmas) == Cardinality({i \in 1..Len(lemmas) : d \in HoldersOf(lemmas[i])})

\* C7: the mode filter keeps a document in AND mode iff the number of original
\* terms it matches is the number of original query terms that have a lemma
\* (terms absent from the lexicon are ignored), in OR mode iff it is at least 1
C7_ModeFilter ==
    (out.op = "semantic" /\ TermLemmas(out.query) # <<>>)
    => \E lemmas \in {TermLemmas(out.query)} :
         DocIds(out.results) =
            {d \in UNION {HoldersOf(lemmas[i]) : i \in 1..Len(lemmas)} :
                out.mode = "AND" => MatchedOriginal(d, lemmas) = Len(lemmas)}

\* a two-word AND query over two documents of which one holds both words:
\* the result is that document
C7_Witness ==
    /\ out.op = "semantic"
    /\ out.mode = "AND"
    /\ out.query = <<"covid", "vaccine">>
    /\ Cardinality(HoldersOf(0)) = 2
    /\ Cardinality(HoldersOf(0) \cap HoldersOf(1)) = 1
    /\ DocIds(out.results) = HoldersOf(0) \cap HoldersOf(1)

\* the results of the executable that gave out, for its query in a mode, before the sort
Unsorted(mode) ==
    IF out.op = "semantic" THEN SemanticResults(out.query, mode)
    ELSE IF Len(out.query) = 1 THEN SingleWordResults(out.query[1])
    ELSE MultiWordResults(out.query, mode)

SortKind ==
    IF out.op = "semantic" THEN "semantic"
    ELSE IF Len(out.query) = 1 THEN "single" ELSE "multi"

\* C8 as stated: the document-IDs of the top-K list returned in AND mode are
\* among those of the top-K list returned in OR mode
C8_TopKAndSubsetOr ==
    (out.op \in {"semantic", "optimized"} /\ out.mode = "AND")
    => \A orResults \in SortOutcomes(Unsorted("OR"), SortKind) :
          DocIds(out.shown) \subseteq DocIds(TopK(orResults))

\* C8: the documents that pass the AND mode filter are among those that pass
\* the OR mode filter, and the top-K list of AND mode is among the documents
\* of OR mode when these are at most K
C8_AndSubsetOr ==
    (out.op \in {"semantic", "optimized"} /\ out.mode = "AND")
    => \E orDocs \in {{r.docId : r \in Unsorted("OR")}} :
          /\ DocIds(out.results) \subseteq orDocs
          /\ Cardinality(orDocs) <= TOP_K => DocIds(out.shown) \subseteq orDocs

\* an AND query with results, fewer than the same query has in OR mode
C8_Witness ==
    /\ out.op = "semantic"
    /\ out.mode = "AND"
    /\ out.results # <<>>
    /\ Len(out.results) < Cardinality(Unsorted("OR"))

\* the documents whose only match is an expanded term of the query
OnlyExpanded(queryWords) ==
    UNION {UNION {HoldersOf(terms[i].lemmaId) : i \in {x \in 1..Len(terms) : terms[x].weight < 1000}}
           \ UNION {HoldersOf(terms[i].lemmaId) : i \in {x \in 1..Len(terms) : terms[x].weight >= 1000}} :
           terms \in {expandQuery(queryWords)}}

\* C9: a document whose only match is an expanded term (similarity > 0.5) is
\* in the results, its score in the semantic score and not in the tf-idf score
C9_SemanticOnlyMatch ==
    (out.op = "semantic" /\ out.mode = "OR")
    => \A d \in OnlyExpanded(out.query) :
          \E i \in 1..Len(out.results) :
             /\ out.results[i].docId = d
             /\ out.results[i].semanticScore > 0
             /\ out.results[i].tfidfScore = 0

\* the query "shot" over an index with a document that holds "vaccine" and not "shot"
C9_Witness ==
    /\ out.op = "semantic"
    /\ out.mode = "OR"
    /\ out.query = <<"shot">>
    /\ HoldersOf(1) \ HoldersOf(2) # {}
    /\ HoldersOf(2) # {}

\* a before b in a list sorted by total score descending, then matched terms
\* descending, then document-ID ascending
InOrder(a, b) ==
    \/ a.totalScore > b.totalScore
    \/ /\ a.totalScore = b.totalScore
       /\ \/ a.matchedTerms > b.matchedTerms
          \/ a.matchedTerms = b.matchedTerms /\ ~LexLess(b.docId, a.docId)

\* C10: the results are sorted by total score descending, ties by matched
\* original terms descending, then by document-ID ascending, and at most
\* K = 20 are returned
C10_SortedTopK ==
    out.op \in {"semantic", "optimized"}
    => /\ Len(out.shown) <= TOP_K
       /\ \A i, j \in 1..Len(out.shown) : i < j => InOrder(out.shown[i], out.shown[j])

\* a listing cut to K results
C10_Witness ==
    /\ out.op = "semantic"
    /\ Len(out.shown) = TOP_K
    /\ Len(out.results) > TOP_K

\* C12: for every df >= 1 the per-term score is strictly increasing in tf, and
\* for every tf >= 1 it is strictly decreasing in df, for all df up to and
\* beyond TOTAL_DOCS
C12_Monotone ==
    out.op = "score"
    => \A i, j \in 1..Len(out.results) :
          LET a == out.results[i]
              b == out.results[j]
          IN /\ (a.df = b.df /\ a.tf < b.tf) => a.score < b.score
             /\ (a.tf = b.tf /\ a.df < b.df) => a.score > b.score

\* tf 3 and tf 5 scored at one df below TOTAL_DOCS: the larger tf scores higher
C12_Witness ==
    /\ out.op = "score"
    /\ Len(out.results) = 2
    /\ out.results[1].df = 1000 /\ out.results[2].df = 1000
    /\ out.results[1].tf = 3 /\ out.results[2].tf = 5
    /\ out.results[1].score < out.results[2].score

\* C13: in every answer of the search executable to an autocomplete request
\* there are at most 5 suggestions, each starts with the lower-cased prefix,
\* no word is there twice, the matching entries of the 3-byte bucket come
\* first, and entries of the 2-byte bucket follow only when the 3-byte bucket
\* gave fewer than 5.
HasSpace(prefix) == \E k \in 1..Len(prefix) : prefix[k] = SPACE

ByExecutable ==
    /\ out.op = "autocomplete"
    /\ ~(HasSpace(out.query) /\ autoFiles.ngram.exists)

\* the entries of the bucket of the first n bytes of p that start with p
Matching(p, n) ==
    IF Len(p) >= n /\ Substr(p, n) \in DOMAIN autocompleteIndex
    THEN SelectSeq(autocompleteIndex[Substr(p, n)], LAMBDA s : StartsWith(s.word, p))
    ELSE <<>>

C14_DfDescending ==
    ByExecutable =>
        \A i, j \in 1..Len(out.results) :
            i < j => out.results[i].df >= out.results[j].df

\* five suggestions of different df from an index sorted at load from trie.txt
C14_Witness ==
    /\ ByExecutable
    /\ ~autoFiles.json.exists
    /\ autoFiles.trie.exists
    /\ Len(out.results) = AUTOCOMPLETE_SUGGESTIONS
    /\ out.results[1].df > out.results[AUTOCOMPLETE_SUGGESTIONS].df

C16_CorruptIsMissing ==
    (out.op = "lookup" /\ Damaged(out.lemmaId)) =>
        (~out.found /\ out.postings = <<>>)

\* a lookup of a lemma whose block is intact, in an index where the block of
\* another lemma is damaged, finds its postings
C16_Witness ==
    /\ out.op = "lookup"
    /\ ~Damaged(out.lemmaId)
    /\ \E l \in DOMAIN lookupFile.map : Damaged(l)
    /\ out.found
    /\ out.postings # <<>>

\* C17: a build tool that exits with code 0 met no fatal error: no input it
\* could not open or parse, no output it could not create.
C17_ExitCodes ==
    (toolExit.tool # "none" /\ toolExit.code = 0) => toolExit.fault = "none"

\* the partitioner does report an inverted index that does not exist
C17_Witness ==
    /\ toolExit.tool = "barrels"
    /\ toolExit.fault = "missing"
    /\ toolExit.code = 1

\* C18: after the partitioner has run, the lemma of the line is in exactly
\* one barrel, a barrel of 0..9: barrel 0 iff df > 10000, barrel 1 + (lemma
\* mod 6) iff 1000 < df <= 10000, barrel 7 + (lemma mod 3) iff df <= 1000.
LineLemma == Stoi(LineFields(invIndexFile[1]).lemmaIdStr)

LineDf == Stoi(LineFields(invIndexFile[1]).dfStr)

ChosenBarrels == {b \in DOMAIN jsonBarrels : LineLemma \in DOMAIN jsonBarrels[b].postings}

OriginalWeight == 1000

C20_ExpandedTerms ==
    out.op = "semantic" =>
        \E terms \in {expandQuery(out.query)} :
            /\ \A i \in 1..Len(out.query) :
                  getLemmaIdForWord(out.query[i]).found =>
                      \E k \in 1..Len(terms) :
                          /\ terms[k].lemmaId = getLemmaIdForWord(out.query[i]).lemmaId
                          /\ terms[k].weight = OriginalWeight
            /\ \A k \in 1..Len(terms) :
                  terms[k].weight # OriginalWeight =>
                      /\ \E i \in 1..Len(out.query) :
                           \E sim \in SeqToSet(findSimilarWords(out.query[i], 3)) :
                               /\ sim.word = terms[k].word
                               /\ sim.similarity > 50
                               /\ terms[k].weight = sim.similarity * 5
                      /\ \A i \in 1..Len(out.query) :
                            getLemmaIdForWord(out.query[i]).lemmaId # terms[k].lemmaId
            /\ \A j, k \in 1..Len(terms) : j # k => terms[j].lemmaId # terms[k].lemmaId

\* "shot" alone: the term itself with weight 1.0, then "vaccine" and "jab"
C20_Witness ==
    /\ out.op = "semantic"
    /\ out.query = <<"shot">>
    /\ embeddings = UnitStore
    /\ \E terms \in {expandQuery(out.query)} :
          /\ Len(terms) = 3
          /\ terms[1].weight = OriginalWeight
          /\ terms[2].word = "vaccine"
          /\ terms[2].weight = 400

\* the lemma the lexicon gives a word, whatever file holds it
LexiconLemma(word) ==
    LET lemmas == CHOOSE l \in LexiconLemmaSets : lexiconFiles \in LexiconForms(l)
    IN IF \E i \in 1..Len(LexiconWords) : LexiconWords[i] = word
       THEN [found |-> TRUE,
             lemmaId |-> lemmas[CHOOSE i \in 1..Len(LexiconWords) : LexiconWords[i] = word]]
       ELSE [found |-> FALSE, lemmaId |-> -1]

\* C21: the lookup of a word gives the lemma ID of the lexicon (or nothing for an
\* unknown word) in both search executables, whether the lexicon was loaded from
\* lexicon.bin or from lexicon.json; it never gives the word-ID
C21_SameLemmaBothForms ==
    out.op = "lemma" =>
        /\ out.results[1] = LexiconLemma(out.query[1])
        /\ out.results[2] = LexiconLemma(out.query[1])

\* the lookup from lexicon.bin: "vaccines" has word-ID 2 and lemma 1 in both
\* executables
C21_Witness ==
    /\ out.op = "lemma"
    /\ out.query = <<"vaccines">>
    /\ lexiconFiles.bin.exists
    /\ wordToWordId["vaccines"] = 2
    /\ out.results = <<[found |-> TRUE, lemmaId |-> 1], [found |-> TRUE, lemmaId |-> 1]>>

\* the postings of a JSON barrel with each document-ID cut to n bytes
CutDocIds(docs, n) ==
    [k \in 1..Len(docs) |->
        [docs[k] EXCEPT !.doc_id = SubSeq(docs[k].doc_id, 1, Min(Len(docs[k].doc_id), n))]]

Occurrences(lemmas, lemma) == Cardinality({k \in 1..Len(lemmas) : lemmas[k] = lemma})

\* the occurrences of a lemma in the three lists of line k of the forward index
OccurrencesIn(k, lemma) ==
    With(AllLemmas(forwardIndexFile[k]), LAMBDA all : Occurrences(all, lemma))

\* the documents of the forward index that hold the lemma, in file order, each
\* with the occurrences of the lemma
PostingsExpected(lemma) ==
    With([k \in 1..Len(forwardIndexFile) |-> OccurrencesIn(k, lemma)], LAMBDA n :
        LET Holds(k) == n[k] > 0
            at == SelectSeq([k \in 1..Len(forwardIndexFile) |-> k], Holds)
        IN [j \in 1..Len(at) |->
               Posting(Bytes(SubSeq(forwardIndexFile[at[j]], 1,
                                    Find(forwardIndexFile[at[j]], BAR, 1) - 1)),
                       n[at[j]])])

ForwardLemmas ==
    UNION {With(AllLemmas(forwardIndexFile[k]), LAMBDA all : {all[j] : j \in 1..Len(all)}) :
              k \in 1..Len(forwardIndexFile)}

\* C23: the inverted index has one line for each lemma of the forward index;
\* its postings are the documents whose title, abstract or body holds the lemma,
\* one posting each, in forward index order, tf the occurrences summed over the
\* three lists, and the df written is the number of postings
C23_PostingsFromForward ==
    pc = "partition" /\ forwardIndexFile # <<>> =>
        /\ \A i \in 1..Len(invIndexFile) :
              LET f == LineFields(invIndexFile[i])
                  ps == ParsePostings(f.postingsStr)
              IN /\ ps = PostingsExpected(Stoi(f.lemmaIdStr))
                 /\ Stoi(f.dfStr) = Len(ps)
                 /\ \A k \in 1..Len(ps) : ps[k].tf >= 1
        /\ \A lemma \in ForwardLemmas :
              Cardinality({i \in 1..Len(invIndexFile) :
                             Stoi(LineFields(invIndexFile[i]).lemmaIdStr) = lemma}) = 1

\* two documents hold lemma 1, one of them three times over title and abstract
C23_Witness ==
    /\ pc = "partition"
    /\ Len(forwardIndexFile) = 2
    /\ \E i \in 1..Len(invIndexFile) :
          LET f == LineFields(invIndexFile[i])
              ps == ParsePostings(f.postingsStr)
          IN /\ Stoi(f.lemmaIdStr) = 1
             /\ Len(ps) = 2
             /\ ps[1].tf = 3
             /\ ps[2].tf = 1

RECURSIVE BestFirst(_, _)
\* the words of a set by descending similarity to word, the lower vocabulary
\* index first among equals
BestFirst(word, ws) ==
    IF ws = {} THEN <<>>
    ELSE LET w == CHOOSE x \in ws : \A y \in ws \ {x} :
                     \/ Similarity[word][y] < Similarity[word][x]
                     \/ /\ Similarity[word][y] = Similarity[word][x]
                        /\ wordToEmbIdx.idx[x] < wordToEmbIdx.idx[y]
         IN <<w>> \o BestFirst(word, ws \ {w})

\* C24: findSimilarWords(word, k) gives the k other vocabulary words of highest
\* dot product with the word, most similar first; among words of equal
\* similarity the one of lower vocabulary index is taken and comes first
C24_TopKLowerIndexFirst ==
    out.op = "similar" =>
        LET best == BestFirst(out.query[1], EmbeddingWords \ {out.query[1]})
        IN /\ Len(out.results) = Min(out.shown, Len(best))
           /\ \A k \in 1..Len(out.results) :
                 /\ out.results[k].word = best[k]
                 /\ out.results[k].similarity = Similarity[out.query[1]][best[k]]

\* without ties: the two words most similar to "shot" are "vaccine" (0.8) and
\* "jab" (0.6), in this order
C24_Witness ==
    /\ out.op = "similar"
    /\ out.query = <<"shot">>
    /\ out.shown = 2
    /\ embeddings = UnitStore
    /\ Len(out.results) = 2
    /\ out.results[1].word = "vaccine" /\ out.results[1].similarity = 80
    /\ out.results[2].word = "jab" /\ out.results[2].similarity = 60

\* C25: the autocomplete cache of the frontend never holds more than 100 entries
C25_CacheAtMostLimit == Len(app.autocompleteCache) <= CACHE_LIMIT

\* C25: the hundredth answer is cached and nothing has been dropped yet
C25_Witness ==
    /\ Len(app.autocompleteCache) = CACHE_LIMIT
    /\ app.autocompleteCache[1].key = NthQuery(0)
    /\ app.autocompleteCache[CACHE_LIMIT].key = app.query

\* C27: whenever the suggestion list is shown, selectedIndex is -1 or the
\* position of a suggestion of the list, and Enter never reads a suggestion
\* that does not exist
C27_SelectedInList ==
    /\ app.showSuggestions /\ app.suggestions # <<>> =>
          app.selectedIndex \in -1..(Len(app.suggestions) - 1)
    /\ ~app.threw

\* C27: the last of two suggestions is selected with the arrow keys
C27_Witness ==
    /\ app.showSuggestions
    /\ Len(app.suggestions) = 2
    /\ app.selectedIndex = 1
    /\ app.appliedAt = app.query

\* C28: the answer to a request sets the suggestions only while the query is
\* still the one the request was made for
C28_NoStaleAnswer == app.appliedFor = app.appliedAt

\* C28: in the version with cancellation an answer has been applied after the
\* query was edited twice
C28_Witness ==
    /\ app.version = 1
    /\ app.showSuggestions
    /\ app.appliedFor = <<99, 111, 118>>
    /\ app.query = <<99, 111, 118>>
    /\ Len(app.autocompleteCache) = 2

\* C26: after two add-document calls for documents that share a lemma, each
\* with its own block and idx entry in the delta barrel, the lookup of the lemma
\* lists both documents
C26_BothAddsListed ==
    (out.op = "lookup" /\ out.lemmaId \in DOMAIN barrelLookup)
    => \A j, k \in AddsOf(out.lemmaId) :
          j # k => {added[j].doc_id, added[k].doc_id} \subseteq DocIdsOf(out.postings)

\* C26: a lookup after two uploads with the lemma, the second of them listed
C26_Witness ==
    /\ out.op = "lookup"
    /\ out.found
    /\ \E j, k \in AddsOf(out.lemmaId) :
          /\ j < k
          /\ ~added[j].prior /\ ~added[k].prior
          /\ idxFile[NEW_DOCS].numEntries >= 2
          /\ added[k].doc_id \in DocIdsOf(out.postings)

\* C29: for every whitespace-free word the token the forward index builder
\* looks up in the lexicon is the token the query tokenizer produces: the word
\* lower-cased, its non-alphanumeric bytes removed
C29_SameToken ==
    out.op = "tokens" => out.results[1] = out.results[2]

\* C29: "A1." is looked up as "a1" at index time and at query time
C29_Witness ==
    /\ out.op = "tokens"
    /\ out.query = <<65, 49, 46>>
    /\ out.results = <<<<97, 49>>, <<97, 49>>>>

\* the counts of one forward index line: total-terms as written, and the
\* title, abstract and body lemmas the line holds
RecordCounts(line) ==
    With(RecordFields(line), LAMBDA f :
        [doc_id |-> f.doc_id,
         total |-> IF f.total_terms_str # <<>> /\ f.total_terms_str[1].t = "num"
                   THEN f.total_terms_str[1].v ELSE -1,
         body |-> Len(parseLemmas(f.body_lemmas)),
         emitted |-> Len(parseLemmas(f.title_lemmas)) + Len(parseLemmas(f.abstract_lemmas))
                     + Len(parseLemmas(f.body_lemmas))])

ForwardCounts == [k \in 1..Len(forwardIndexFile) |-> RecordCounts(forwardIndexFile[k])]

====
